---- MODULE Spec2Model ----
(***************************************************************************)
(* Port wiring of the Goldstone (GDSCC) station configurations.            *)
(*                                                                         *)
(* Names are sequences of one-character strings, so that str(), "%02d",    *)
(* concatenation, substring search and Python's string ordering are        *)
(* computed rather than assumed.  Port objects live in a heap (a sequence  *)
(* of Port records); a Port reference is its index in the heap, 0 is None. *)
(***************************************************************************)
EXTENDS Integers, Sequences, FiniteSets, TLC

VARIABLES
  cfg,        \* StationTable: <<dss, band, pol>> -> switch input number
  keyOrder,   \* iteration order of the nested dict cfg (fixed per dict)
  pc,         \* position of station_configuration
  todo,       \* triples of cfg whose loop iteration is still to come
  ports,      \* heap of Port objects
  tel,        \* dict dss -> Telescope
  fe,         \* dict front end name -> FrontEnd
  rx,         \* dict receiver name -> Receiver
  swin,       \* the mapping make_switch_inputs returned
  sw,         \* the IF switch Device (inputs, outputs) once built
  equipment,  \* dict equipment key -> kind of value stored under it
  err,        \* exception that left station_configuration, or "none"
  req,        \* arguments of one DSNfe / DSNrx constructor call
  node,       \* the object that constructor call was building
  werr,       \* exception that left this constructor call, or "none"
  wpc,        \* position of the constructor call
  got,        \* what a call of get_FE_band_and_pols returned or raised
  variant,    \* the configuration module whose station_configuration runs
  ROACHlist,  \* ROACH hosts found by LAN_hosts_status() when the module loads
  roaches,    \* the module's list roaches
  hardware,   \* the hardware argument: is the optional subsystem present
  serverUp,   \* is the MS287 IF switch server running
  handles,    \* hardware handles acquired so far
  ret,        \* what station_configuration returned
  be,         \* the Backend once built
  first,      \* the result of an earlier invocation of station_configuration
  run,        \* number of the invocation of station_configuration under way
  hpin,       \* the inputs argument of HP_IFSwitch: input number -> Port or None
  channel,    \* self.channel of the HP_IFSwitch: output name -> Channel
  hpk,        \* number of Channels the loop over output_names has built
  swstate,    \* matrix switch: output number -> input number it is routed to
  data,       \* the dict survey_input_spectra is filling
  SWin,       \* outer loop variable of survey_input_spectra
  SWout,      \* inner loop variable of survey_input_spectra
  firmware,   \* self.firmware of the DTO_Manager: ROACH name -> firmware name
  sw_states,  \* self.sw_states of the DTO_Manager
  ADCin,      \* the dict survey_ADC_inputs is filling
  ADC_input,  \* self.ADC_input of the DTO_Manager
  gain,       \* self.gain of the DTO_Manager
  mret,       \* the DTO_Manager method that returned last, and how
  sample_clk, \* self.sample_clk of the DTO_Manager: clock number -> Synthesizer
  spectrometer, \* self.spectrometer.roach: ROACH name -> condition of the ROACH
  ADC_temps,  \* self.ADC_temps of the DTO_Manager
  sources,    \* what get_active_channels returned
  wvsr_cfg,   \* collector.wvsr_cfg of WVSR.station_configuration
  wtodo,      \* WVSR recorders whose loop pass is still to come
  wbe         \* the WVSR backends built so far: recorder -> backend

vars == <<cfg, keyOrder, pc, todo, ports, tel, fe, rx, swin, sw, equipment, err,
          req, node, werr, wpc, got,
          variant, ROACHlist, roaches, hardware, serverUp, handles, ret,
          be, first, run, hpin, channel, hpk, swstate, data, SWin, SWout,
          firmware, sw_states, ADCin, ADC_input, gain, mret, sample_clk, spectrometer,
          ADC_temps, sources, wvsr_cfg, wtodo, wbe>>

stationVars == <<cfg, keyOrder, pc, todo, tel, fe, rx, swin, sw, be, equipment, err>>
wiringVars == <<req, node, werr, wpc>>
equipVars == <<variant, ROACHlist, roaches, hardware, serverUp, handles, ret>>
hpVars == <<hpin, channel, hpk>>
surveyVars == <<swstate, data, SWin, SWout>>
mgrVars == <<firmware, sw_states, ADCin, ADC_input, gain, mret, sample_clk, spectrometer,
             ADC_temps, sources>>
wvsrVars == <<wvsr_cfg, wtodo, wbe>>
restVars == <<first, run, hpVars, surveyVars, mgrVars, wvsrVars>>
auxVars == <<got, equipVars, restVars>>

-----------------------------------------------------------------------------
(* Bounds of the model *)

\* largest number of (station, band, polarization) triples in a StationTable
MaxTriples == 3

\* largest number of input ports and of output ports of a constructor call
MaxPorts == 3

\* largest number of ROACH hosts that LAN_hosts_status() discovers
MaxRoaches == 3

-----------------------------------------------------------------------------
(* Python strings *)

\* the characters used in names, in increasing code-point order
Ascii ==
  << "-", ".", "/",
     "0", "1", "2", "3", "4", "5", "6", "7", "8", "9",
     "A", "B", "C", "D", "E", "F", "G", "H", "I", "J", "K", "L", "M",
     "N", "O", "P", "Q", "R", "S", "T", "U", "V", "W", "X", "Y", "Z",
     "a", "b", "c", "d", "e", "f", "g", "h", "i", "j", "k", "l", "m",
     "n", "o", "p", "q", "r", "s", "t", "u", "v", "w", "x", "y", "z" >>

Ord(c) == CHOOSE i \in 1..Len(Ascii) : Ascii[i] = c

Min(a, b) == IF a < b THEN a ELSE b

\* a < b for Python str
StrLess(a, b) ==
  \E k \in 0..Min(Len(a), Len(b)) :
    /\ \A i \in 1..k : a[i] = b[i]
    /\ \/ k = Len(a) /\ k < Len(b)
       \/ k < Len(a) /\ k < Len(b) /\ Ord(a[k+1]) < Ord(b[k+1])

\* list(d.keys()) followed by .sort()
RECURSIVE SortedKeys(_)
SortedKeys(S) ==
  IF S = {} THEN << >>
  ELSE LET m == CHOOSE x \in S : \A y \in S \ {x} : StrLess(x, y)
       IN  <<m>> \o SortedKeys(S \ {m})

\* list.index(x)
IndexOf(seq, x) == CHOOSE i \in 1..Len(seq) : seq[i] = x

Digit(d) == SubSeq(Ascii, d + 4, d + 4)

\* str(n) for an int n >= 0
RECURSIVE Str(_)
Str(n) == IF n < 10 THEN Digit(n) ELSE Str(n \div 10) \o Digit(n % 10)

\* "%02d" % n for an int n >= 0
Fmt02d(n) == IF n < 10 THEN <<"0">> \o Str(n) ELSE Str(n)

\* whether code occurs in name at position i
OccursAt(name, code, i) ==
  /\ i + Len(code) - 1 <= Len(name)
  /\ \A j \in 1..Len(code) : name[i + j - 1] = code[j]

Range(seq) == {seq[i] : i \in 1..Len(seq)}

\* d[k] = v on a dict
Put(d, k, v) == [x \in DOMAIN d \cup {k} |-> IF x = k THEN v ELSE d[x]]

\* d.pop(k) for a key that is present
Pop(d, k) == [x \in DOMAIN d \ {k} |-> d[x]]

EmptyDict == [x \in {} |-> 0]

-----------------------------------------------------------------------------
(* Device, Port and Signal objects of the MonitorControl object model *)

\* the None reference
NoPort == 0

NoName == << >>

NoSignal == [kind |-> "None", band |-> NoName, pol |-> NoName, IF_type |-> NoName]

NoNode == [kind |-> "None", name |-> NoName, inputs |-> EmptyDict, outputs |-> EmptyDict]

\* Port(parent, name): owned by its Device, no source, no destinations, no signal
NewPort(kind, owner, name) ==
  [kind |-> kind, owner |-> owner, name |-> name,
   source |-> NoPort, dest |-> {}, signal |-> NoSignal]

\* Device.__init__(name, inputs, output_names): the input mapping refers to the
\* upstream Ports, one new output Port is created per output name
DeviceOutputs(h, output_names) ==
  [n \in Range(output_names) |-> Len(h) + IndexOf(output_names, n)]

DeviceHeap(h, kind, name, output_names) ==
  h \o [i \in 1..Len(output_names) |-> NewPort(kind, name, output_names[i])]

DeviceNode(h, kind, name, inputs, output_names) ==
  [kind |-> kind, name |-> name, inputs |-> inputs,
   outputs |-> DeviceOutputs(h, output_names)]

\* one producer Port feeding the consumer Ports outs: each consumer's source is
\* the producer, the producer's destinations gain the consumers
LinkOne(h, src, outs) ==
  [i \in 1..Len(h) |->
     IF i \in outs THEN [h[i] EXCEPT !.source = src]
     ELSE IF i = src THEN [h[i] EXCEPT !.dest = @ \cup outs]
     ELSE h[i]]

RECURSIVE LinkPairs(_, _, _, _, _)
LinkPairs(h, inputs, ik, outputs, ok) ==
  IF ik = << >> \/ ok = << >> THEN h
  ELSE LinkPairs(LinkOne(h, inputs[Head(ik)], {outputs[Head(ok)]}),
                 inputs, Tail(ik), outputs, Tail(ok))

\* link_ports(inputs, outputs): a single input feeds every output, otherwise
\* inputs and outputs are paired in sorted-name order
LinkPorts(h, inputs, outputs) ==
  IF Cardinality(DOMAIN inputs) = 1
  THEN LinkOne(h, inputs[CHOOSE k \in DOMAIN inputs : TRUE],
               {outputs[k] : k \in DOMAIN outputs})
  ELSE LinkPairs(h, inputs, SortedKeys(DOMAIN inputs),
                 outputs, SortedKeys(DOMAIN outputs))

\* the valid property codes
BandCodes == { <<"S">>, <<"X">>, <<"K", "a">> }
PolCodes == { <<"R">>, <<"L">> }
IFCodes == { <<"U">> }

MatchPositions(name, codes) ==
  {i \in 1..Len(name) : \E c \in codes : OccursAt(name, c, i)}

HasCode(name, codes) == MatchPositions(name, codes) # {}

\* the first substring of name that is a valid code
FirstCode(name, codes) ==
  LET i == CHOOSE p \in MatchPositions(name, codes) :
             \A q \in MatchPositions(name, codes) : p <= q
  IN  CHOOSE c \in codes : OccursAt(name, c, i)

\* valid_property(keylist, ptype): dict of the property code found in each key
AllValid(keys, codes) == \A k \in keys : HasCode(k, codes)

ValidProperty(keys, codes) == [k \in keys |-> FirstCode(k, codes)]

ComplexSignal(band, pol) ==
  [kind |-> "ComplexSignal", band |-> band, pol |-> pol, IF_type |-> NoName]

IFSignal(IF_type) ==
  [kind |-> "IF", band |-> NoName, pol |-> NoName, IF_type |-> IF_type]

SetSignals(h, sig) ==
  [i \in 1..Len(h) |-> IF i \in DOMAIN sig THEN [h[i] EXCEPT !.signal = sig[i]] ELSE h[i]]

-----------------------------------------------------------------------------
(* dss13.py: generic DSN front end and receiver classes *)

\* get_FE_band_and_pols(inputs, band, output_names=...), pols_out not given.
\* The band is taken from the input names when it is not given; with more
\* than one input the uniformity test evaluates (bands==band).all() on a bool.
FEBandError(inputs, band) ==
  IF band # NoName THEN "none"
  ELSE IF ~ AllValid(DOMAIN inputs, BandCodes) THEN "MissingPropertyError"
  ELSE IF Cardinality(DOMAIN inputs) > 1 THEN "AttributeError"
  ELSE "none"

FEBand(inputs, band) ==
  IF band # NoName THEN band
  ELSE ValidProperty(DOMAIN inputs, BandCodes)[CHOOSE k \in DOMAIN inputs : TRUE]

get_FE_band_and_pols(inputs, band, output_names) ==
  IF FEBandError(inputs, band) # "none"
  THEN [err |-> FEBandError(inputs, band), band |-> NoName,
        output_names |-> output_names, pols_out |-> EmptyDict]
  ELSE IF ~ AllValid(Range(output_names), PolCodes)
  THEN [err |-> "MissingPropertyError", band |-> NoName,
        output_names |-> output_names, pols_out |-> EmptyDict]
  ELSE [err |-> "none", band |-> FEBand(inputs, band),
        output_names |-> output_names,
        pols_out |-> ValidProperty(Range(output_names), PolCodes)]

\* a connect function without a fan-out branch
SingleInputNever(inputs) == Cardinality(DOMAIN inputs) = 0

\* the test that selects the fan-out branch of both connect functions
SingleInput(inputs) == Cardinality(DOMAIN inputs) = 1

\* the assert of both connect functions
SameCount(inputs, outputs) ==
  Cardinality(DOMAIN inputs) = Cardinality(DOMAIN outputs)

\* the signal given to output port key of a front end
FEOutputSignal(band, pols_out, key) == ComplexSignal(band, pols_out[key])

FESignals(h, band, outputs, pols_out) ==
  SetSignals(h, [i \in {outputs[k] : k \in DOMAIN outputs} |->
                   FEOutputSignal(band, pols_out,
                                  CHOOSE k \in DOMAIN outputs : outputs[k] = i)])

\* connect_FE_inputs_and_outputs(inputs, band, outputs, pols_out).  In the
\* branch for several inputs the loop body reads input_keys, a name that is
\* not bound in this function nor in the module.
connect_FE_inputs_and_outputs(h, inputs, band, outputs, pols_out) ==
  IF SingleInput(inputs)
  THEN [err |-> "none",
        heap |-> FESignals(LinkPorts(h, inputs, outputs), band, outputs, pols_out)]
  ELSE IF ~ SameCount(inputs, outputs)
  THEN [err |-> "AssertionError", heap |-> h]
  ELSE IF DOMAIN pols_out # {}
  THEN [err |-> "NameError", heap |-> h]
  ELSE [err |-> "none", heap |-> FESignals(h, band, outputs, pols_out)]

\* DSNfe.__init__(name, inputs, band, output_names)
DSNfe(h, name, inputs, band, output_names) ==
  LET g  == get_FE_band_and_pols(inputs, band, output_names)
      h1 == DeviceHeap(h, "FrontEnd", name, g.output_names)
      n1 == DeviceNode(h, "FrontEnd", name, inputs, g.output_names)
      c  == connect_FE_inputs_and_outputs(h1, inputs, g.band, n1.outputs, g.pols_out)
  IN  IF g.err # "none"
      THEN [err |-> g.err, heap |-> h, node |-> NoNode]
      ELSE [err |-> c.err, heap |-> c.heap, node |-> n1]

\* get_receiver_IF_output_types(output_names)
ReceiverIFError(output_names) ==
  IF AllValid(Range(output_names), IFCodes) THEN "none" ELSE "MissingPropertyError"

get_receiver_IF_output_types(output_names) ==
  ValidProperty(Range(output_names), IFCodes)

\* a pairing that takes the first input for every output
PairedInputFirst(input_keys, output_names, item) == input_keys[1]

\* the input paired with output item: the one at item's index among the
\* sorted output names
PairedInput(input_keys, output_names, item) ==
  input_keys[IndexOf(output_names, item)]

RECURSIVE LinkItems(_, _, _, _, _, _)
LinkItems(h, items, inputs, input_keys, outputs, output_names) ==
  IF items = << >> THEN h
  ELSE LET item == Head(items)
           key  == PairedInput(input_keys, output_names, item)
       IN  LinkItems(LinkPorts(h, [k \in {key} |-> inputs[k]],
                                  [k \in {item} |-> outputs[k]]),
                     Tail(items), inputs, input_keys, outputs, output_names)

RxSignals(h, outputs, IF_out) ==
  SetSignals(h, [i \in {outputs[k] : k \in DOMAIN outputs} |->
                   IFSignal(IF_out[CHOOSE k \in DOMAIN outputs : outputs[k] = i])])

\* connect_receiver_inputs_and_outputs(inputs, outputs, IF_out)
connect_receiver_inputs_and_outputs(h, inputs, outputs, IF_out) ==
  LET output_names == SortedKeys(DOMAIN outputs)
      input_keys   == SortedKeys(DOMAIN inputs)
  IN  IF SingleInput(inputs)
      THEN [err |-> "none",
            heap |-> RxSignals(LinkPorts(h, inputs, outputs), outputs, IF_out)]
      ELSE IF ~ SameCount(inputs, outputs)
      THEN [err |-> "AssertionError", heap |-> h]
      ELSE [err |-> "none",
            heap |-> RxSignals(LinkItems(h, SortedKeys(DOMAIN IF_out), inputs,
                                         input_keys, outputs, output_names),
                               outputs, IF_out)]

\* DSNrx.__init__(name, inputs, output_names)
DSNrx(h, name, inputs, output_names) ==
  LET h1 == DeviceHeap(h, "Receiver", name, output_names)
      n1 == DeviceNode(h, "Receiver", name, inputs, output_names)
      c  == connect_receiver_inputs_and_outputs(
              h1, inputs, n1.outputs, get_receiver_IF_output_types(output_names))
  IN  IF ReceiverIFError(output_names) # "none"
      THEN [err |-> ReceiverIFError(output_names), heap |-> h, node |-> NoNode]
      ELSE [err |-> c.err, heap |-> c.heap, node |-> n1]

-----------------------------------------------------------------------------
(* __init__.py: the StationTable cfg and make_switch_inputs *)

\* the matrix switch has inputs In01..In24
NSlots == 24

Stations == {14, 24}
Bands == { <<"S">>, <<"K", "a">> }
Pols == { <<"R">>, <<"L">> }
SlotValues == {0, 5, 9, NSlots, NSlots + 1}

\* the triples a table may hold: right circular for every station and band,
\* and left circular as well for S-band at DSS-14
Triples ==
  {t \in Stations \X Bands \X Pols :
     t[3] = <<"L">> => (t[1] = 14 /\ t[2] = <<"S">>)}

\* the StationTables of the model: every (station, band, polarization) present
\* carries a switch input number
Tables ==
  UNION {[T -> SlotValues] : T \in {U \in SUBSET Triples : Cardinality(U) <= MaxTriples}}

\* orders in which the nested loops over cfg.keys(), cfg[dss].keys() and
\* cfg[dss][band].keys() can visit the triples
KeyOrders(T) ==
  {s \in [1..Cardinality(T) -> T] :
     /\ \A i, j \in DOMAIN s : s[i] = s[j] => i = j
     /\ \A i, k \in DOMAIN s : \A j \in i..k :
          /\ s[i][1] = s[k][1] => s[j][1] = s[i][1]
          /\ (s[i][1] = s[k][1] /\ s[i][2] = s[k][2]) => s[j][2] = s[i][2]}

\* the triples of the cfg shipped in the package, in the order of its source text
GoldstoneTriples ==
  << <<14, <<"S">>, <<"R">> >>, <<14, <<"S">>, <<"L">> >>,
     <<14, <<"X">>, <<"R">> >>, <<14, <<"X">>, <<"L">> >>,
     <<15, <<"S">>, <<"R">> >>, <<15, <<"X">>, <<"R">> >>,
     <<24, <<"S">>, <<"R">> >>,
     <<24, <<"X">>, <<"R">> >>, <<24, <<"X">>, <<"L">> >>,
     <<24, <<"K", "a">>, <<"R">> >>,
     <<25, <<"X">>, <<"R">> >>, <<25, <<"K", "a">>, <<"R">> >>,
     <<26, <<"S">>, <<"R">> >>,
     <<26, <<"X">>, <<"R">> >>, <<26, <<"X">>, <<"L">> >>,
     <<26, <<"K", "a">>, <<"R">> >> >>

\* the shipped table with 26KaR on the switch input of 26XR
GoldstoneCfgShared ==
  [t \in Range(GoldstoneTriples) |->
     IF t = <<14, <<"S">>, <<"R">> >> THEN 4
     ELSE IF t = <<14, <<"X">>, <<"R">> >> THEN 6
     ELSE IF t = <<24, <<"S">>, <<"R">> >> THEN 2
     ELSE IF t = <<26, <<"X">>, <<"R">> >> THEN 18
     ELSE IF t = <<26, <<"K", "a">>, <<"R">> >> THEN 18
     ELSE 0]

\* cfg = {14: {'S': {'R': 4, 'L': 0}, 'X': {'R': 6, 'L': 0}}, 15: ..., 26: ...}
GoldstoneCfg ==
  [t \in Range(GoldstoneTriples) |->
     IF t = <<14, <<"S">>, <<"R">> >> THEN 4
     ELSE IF t = <<14, <<"X">>, <<"R">> >> THEN 6
     ELSE IF t = <<24, <<"S">>, <<"R">> >> THEN 2
     ELSE IF t = <<26, <<"X">>, <<"R">> >> THEN 18
     ELSE IF t = <<26, <<"K", "a">>, <<"R">> >> THEN 20
     ELSE 0]

\* the tables station_configuration is run on: the shipped one and the small ones
StationTables == Tables \cup {GoldstoneCfg}

Reverse(seq) == [i \in 1..Len(seq) |-> seq[Len(seq) + 1 - i]]

\* the orders in which the nested loops visit the triples of a table; of the
\* orders of the shipped table, the one of its source text and the reverse one
LoopOrders(table) ==
  IF DOMAIN table = Range(GoldstoneTriples)
  THEN {GoldstoneTriples, Reverse(GoldstoneTriples)}
  ELSE KeyOrders(DOMAIN table)

\* a label formatted with "In%d"
SwitchLabelNoPad(n) == <<"I", "n">> \o Str(n)

\* swin = "In%02d" % cfg[dss][band][pol]
SwitchLabel(n) == <<"I", "n">> \o Fmt02d(n)

\* fename = band+str(dss)
FEName(dss, band) == band \o Str(dss)

\* rxout = band+str(dss)+pol+"U"
RxOutName(dss, band, pol) == band \o Str(dss) \o pol \o <<"U">>

\* an initialization over range(1,24)
InitialInputsShort == [l \in {SwitchLabel(i) : i \in 1..(NSlots - 1)} |-> NoPort]

\* inputs["In%02d" % index] = None for index in range(1,25)
InitialInputs == [l \in {SwitchLabel(i) : i \in 1..NSlots} |-> NoPort]

\* the loop over the triples: inputs[swin] = rx[band+str(dss)].outputs[rxout]
RECURSIVE BindInputs(_, _, _, _)
BindInputs(inputs, order, table, rxd) ==
  IF order = << >> THEN inputs
  ELSE LET t == Head(order)
       IN  BindInputs(Put(inputs, SwitchLabel(table[t]),
                          rxd[FEName(t[1], t[2])].outputs[RxOutName(t[1], t[2], t[3])]),
                      Tail(order), table, rxd)

\* the lookups rx[band+str(dss)] and .outputs[rxout] of the loop raise KeyError
\* for a receiver or an output name that does not exist
BindError(order, table, rxd) ==
  \E i \in 1..Len(order) :
    \/ FEName(order[i][1], order[i][2]) \notin DOMAIN rxd
    \/ RxOutName(order[i][1], order[i][2], order[i][3])
          \notin DOMAIN rxd[FEName(order[i][1], order[i][2])].outputs

\* a return that keeps the "In00" entry
PopNothing(inputs) == [err |-> "none", inputs |-> inputs]

\* inputs.pop("In00")
PopUnconnected(inputs) ==
  IF SwitchLabel(0) \in DOMAIN inputs
  THEN [err |-> "none", inputs |-> Pop(inputs, SwitchLabel(0))]
  ELSE [err |-> "KeyError", inputs |-> EmptyDict]

\* make_switch_inputs(rx), reading the module's cfg in its key order
make_switch_inputs(rxd, table, order) ==
  IF BindError(order, table, rxd)
  THEN [err |-> "KeyError", inputs |-> EmptyDict]
  ELSE PopUnconnected(BindInputs(InitialInputs, order, table, rxd))

-----------------------------------------------------------------------------
(* DTO_32K_P4.py: station_configuration *)

\* Telescope(obs, dss=dss): its single output port carries the telescope's name
TelescopeName(dss) == <<"D", "S", "S", "-">> \o Str(dss)

\* the triples of the (dss, band) at the head of the remaining iteration
Group(seq) ==
  SelectSeq(seq, LAMBDA t : t[1] = Head(seq)[1] /\ t[2] = Head(seq)[2])

Rest(seq) ==
  SelectSeq(seq, LAMBDA t : ~ (t[1] = Head(seq)[1] /\ t[2] = Head(seq)[2]))

\* output names band+pol, without the station
FEOutNamesNoStation(fename, group) ==
  [i \in 1..Len(group) |-> group[i][2] \o group[i][3]]

\* outnames.append(fename+pol) for pol in cfg[dss][band].keys()
FEOutNames(fename, group) == [i \in 1..Len(group) |-> fename \o group[i][3]]

\* inputs = {fename: tel[dss].outputs[tel[dss].name]}
FEInputs(fename, telescope) == [k \in {fename} |-> telescope.outputs[telescope.name]]

\* receiver inputs all bound to the first front-end output
RxInputsFirst(frontend, outnames) ==
  [n \in Range(outnames) |-> frontend.outputs[outnames[1]]]

\* rx_inputs[outname] = fe[fename].outputs[outname]
RxInputs(frontend, outnames) == [n \in Range(outnames) |-> frontend.outputs[n]]

\* rx_outnames.append(outname+'U')
RxOutNames(outnames) == [i \in 1..Len(outnames) |-> outnames[i] \o <<"U">>]

SwitchOutputNames == << <<"I", "F", "1">>, <<"I", "F", "2">>,
                        <<"I", "F", "3">>, <<"I", "F", "4">> >>

SwitchName == <<"M", "a", "t", "r", "i", "x">>

\* nothing has been asked of get_FE_band_and_pols
NoGot == [err |-> "none", band |-> NoName, output_names |-> << >>, pols_out |-> EmptyDict]

\* the default of the hardware argument of DTO_32K_P4.station_configuration
DefaultHardware == [IF_switch |-> TRUE, Synthesizer |-> FALSE, Backend |-> FALSE]

equipIdle ==
  /\ variant = "none"
  /\ ROACHlist = << >>
  /\ roaches = << >>
  /\ hardware = DefaultHardware
  /\ serverUp = TRUE
  /\ handles = {}
  /\ ret = "none"

\* no invocation of station_configuration has returned yet
NoFirst == [tel |-> EmptyDict, fe |-> EmptyDict, rx |-> EmptyDict, swin |-> EmptyDict,
            sw |-> NoNode, be |-> NoNode, heap |-> << >>]

hpIdle ==
  /\ hpin = EmptyDict
  /\ channel = EmptyDict
  /\ hpk = 0

surveyIdle ==
  /\ swstate = EmptyDict
  /\ data = EmptyDict
  /\ SWin = 0
  /\ SWout = 0

\* no DTO_Manager method has been called
NoReturn == [method |-> "none", err |-> "none"]

\* there is no DTO_Manager
mgrIdle ==
  /\ firmware = EmptyDict
  /\ sw_states = EmptyDict
  /\ ADCin = EmptyDict
  /\ ADC_input = EmptyDict
  /\ gain = EmptyDict
  /\ mret = NoReturn
  /\ sample_clk = EmptyDict
  /\ spectrometer = EmptyDict
  /\ ADC_temps = EmptyDict
  /\ sources = EmptyDict

\* WVSR.station_configuration is not under way
wvsrIdle ==
  /\ wvsr_cfg = EmptyDict
  /\ wtodo = << >>
  /\ wbe = EmptyDict

restIdle ==
  /\ first = NoFirst
  /\ run = 1
  /\ hpIdle
  /\ surveyIdle
  /\ mgrIdle
  /\ wvsrIdle

\* no station_configuration is under way
stationIdle ==
  /\ cfg = EmptyDict
  /\ keyOrder = << >>
  /\ todo = << >>
  /\ tel = EmptyDict
  /\ fe = EmptyDict
  /\ rx = EmptyDict
  /\ swin = EmptyDict
  /\ be = NoNode
  /\ equipment = EmptyDict
  /\ err = "none"

wiringIdle ==
  [kind |-> "None", name |-> NoName, inputs |-> EmptyDict,
   band |-> NoName, output_names |-> << >>]

\* no DSNfe or DSNrx constructor call is under way
constructorIdle ==
  /\ req = wiringIdle
  /\ node = NoNode
  /\ werr = "none"
  /\ wpc = "idle"

auxIdle ==
  /\ got = NoGot
  /\ equipIdle
  /\ restIdle

Init ==
  /\ cfg \in StationTables
  /\ keyOrder \in LoopOrders(cfg)
  /\ todo = keyOrder
  /\ pc = "dss"
  /\ ports = << >>
  /\ tel = EmptyDict
  /\ fe = EmptyDict
  /\ rx = EmptyDict
  /\ swin = EmptyDict
  /\ sw = NoNode
  /\ be = NoNode
  /\ equipment = EmptyDict
  /\ err = "none"
  /\ req = wiringIdle
  /\ node = NoNode
  /\ werr = "none"
  /\ wpc = "idle"
  /\ auxIdle

\* tel[dss] = Telescope(obs, dss=dss, active=hardware["Antenna"])
NewTelescope ==
  /\ pc = "dss"
  /\ todo # << >>
  /\ LET dss  == Head(todo)[1]
         name == TelescopeName(dss)
     IN  /\ tel' = Put(tel, dss, DeviceNode(ports, "Telescope", name, EmptyDict, <<name>>))
         /\ ports' = DeviceHeap(ports, "Telescope", name, <<name>>)
  /\ pc' = "band"
  /\ UNCHANGED <<cfg, keyOrder, todo, fe, rx, swin, sw, be, be, equipment, err>>
  /\ UNCHANGED wiringVars
  /\ UNCHANGED auxVars

\* fe[fename] = ClassInstance(FrontEnd, DSN_fe, fename, inputs=..., output_names=outnames)
\* DSN_fe is the generic DSN front end; the repository's class of that kind is
\* dss13.DSNfe, called here without a band
NewFrontEnd ==
  /\ pc = "band"
  /\ LET dss    == Head(todo)[1]
         fename == FEName(dss, Head(todo)[2])
         r      == DSNfe(ports, fename, FEInputs(fename, tel[dss]), NoName,
                         FEOutNames(fename, Group(todo)))
     IN  /\ ports' = r.heap
         /\ err' = r.err
         /\ fe' = IF r.err = "none" THEN Put(fe, fename, r.node) ELSE fe
         /\ pc' = IF r.err = "none" THEN "rx" ELSE "failed"
  /\ UNCHANGED <<cfg, keyOrder, todo, tel, rx, swin, sw, be, equipment>>
  /\ UNCHANGED wiringVars
  /\ UNCHANGED auxVars

\* DSN_rx is the generic DSN receiver, as dss13.DSNrx
\* rx[fename] = ClassInstance(Receiver, DSN_rx, fename, inputs=rx_inputs,
\*                            output_names=rx_outnames), then the next band or station
NewReceiver ==
  /\ pc = "rx"
  /\ LET dss      == Head(todo)[1]
         fename   == FEName(dss, Head(todo)[2])
         outnames == FEOutNames(fename, Group(todo))
         r        == DSNrx(ports, fename, RxInputs(fe[fename], outnames),
                           RxOutNames(outnames))
     IN  /\ ports' = r.heap
         /\ err' = r.err
         /\ rx' = IF r.err = "none" THEN Put(rx, fename, r.node) ELSE rx
         /\ pc' = IF r.err # "none" THEN "failed"
                  ELSE IF Rest(todo) # << >> /\ Head(Rest(todo))[1] = dss THEN "band"
                  ELSE "dss"
  /\ todo' = Rest(todo)
  /\ UNCHANGED <<cfg, keyOrder, tel, fe, swin, sw, be, equipment>>
  /\ UNCHANGED wiringVars
  /\ UNCHANGED auxVars

\* the loops are over: equipment['Telescope'], ['FrontEnd'], ['Receiver'] are
\* set and the argument inputs=make_switch_inputs(rx) is evaluated
CallMakeSwitchInputs ==
  /\ pc = "dss"
  /\ todo = << >>
  /\ LET m == make_switch_inputs(rx, cfg, keyOrder)
     IN  /\ err' = m.err
         /\ swin' = m.inputs
         /\ pc' = IF m.err = "none" THEN "switch" ELSE "failed"
  /\ equipment' = Put(Put(Put(equipment, "Telescope", "dict"), "FrontEnd", "dict"),
                      "Receiver", "dict")
  /\ UNCHANGED <<cfg, keyOrder, todo, ports, tel, fe, rx, sw, be>>
  /\ UNCHANGED wiringVars
  /\ UNCHANGED auxVars

\* IFswitch = ClassInstance(Device, MS287client, "Matrix Switch", inputs=...,
\*                          output_names=['IF1', 'IF2', 'IF3', 'IF4'])
\* which raises NamingError when the switch server is not running
NewIFSwitch ==
  /\ pc = "switch"
  /\ \E running \in BOOLEAN :
       IF running
       THEN /\ sw' = DeviceNode(ports, "Device", SwitchName, swin, SwitchOutputNames)
            /\ ports' = DeviceHeap(ports, "Device", SwitchName, SwitchOutputNames)
            /\ equipment' = Put(equipment, "IF_switch", "dict")
            /\ pc' = "clock"
            /\ UNCHANGED err
       ELSE /\ err' = "NamingError"
            /\ pc' = "failed"
            /\ UNCHANGED <<ports, sw, equipment>>
  /\ UNCHANGED <<cfg, keyOrder, todo, tel, fe, rx, swin, be>>
  /\ UNCHANGED wiringVars
  /\ UNCHANGED auxVars

\* sample_clk[0], sample_clk[1]; equipment['Synthesizer'] = sample_clk
NewSynthesizers ==
  /\ pc = "clock"
  /\ equipment' = Put(equipment, "Synthesizer", "dict")
  /\ pc' = "backend"
  /\ UNCHANGED <<cfg, keyOrder, todo, ports, tel, fe, rx, swin, sw, be, err>>
  /\ UNCHANGED wiringVars
  /\ UNCHANGED auxVars

BackendName == <<"3", "2", "K">>

BackendOutputNames == << <<"I", "F", "1", "p", "w", "r">>, <<"I", "F", "2", "p", "w", "r">> >>

\* the backend inputs bound to its own first output port
BackendInputsOwn(switch) ==
  [k \in {<<"R", "o", "1", "I", "n", "1">>, <<"R", "o", "2", "I", "n", "1">>} |->
     switch.outputs[<<"I", "F", "4">>] + 1]

\* inputs = {"Ro1In1": IFswitch.outputs['IF1'], "Ro2In1": IFswitch.outputs['IF3']}
BackendInputs(switch) ==
  [k \in {<<"R", "o", "1", "I", "n", "1">>, <<"R", "o", "2", "I", "n", "1">>} |->
     IF k = <<"R", "o", "1", "I", "n", "1">> THEN switch.outputs[<<"I", "F", "1">>]
                                             ELSE switch.outputs[<<"I", "F", "3">>]]

\* BE = ClassInstance(Backend, SAOspec, "32K", inputs=..., output_names=...);
\* equipment['Backend'] = BE; return
NewBackend ==
  /\ pc = "backend"
  /\ be' = DeviceNode(ports, "Backend", BackendName, BackendInputs(sw), BackendOutputNames)
  /\ ports' = DeviceHeap(ports, "Backend", BackendName, BackendOutputNames)
  /\ equipment' = Put(equipment, "Backend", "node")
  /\ pc' = "done"
  /\ UNCHANGED <<cfg, keyOrder, todo, tel, fe, rx, swin, sw, err>>
  /\ UNCHANGED wiringVars
  /\ UNCHANGED auxVars

Next ==
  \/ NewTelescope
  \/ NewFrontEnd
  \/ NewReceiver
  \/ CallMakeSwitchInputs
  \/ NewIFSwitch
  \/ NewSynthesizers
  \/ NewBackend

Spec == Init /\ [][Next]_vars

-----------------------------------------------------------------------------
(* DTO_32K_P4.py: station_configuration invoked a second time *)

\* the switch input numbers of the small tables that are configured twice
TwiceSlots == {0, 5, 9}

\* the second invocation visiting the keys in the opposite order
OppositeOrder(order) == Reverse(order)

\* cfg is not modified between the invocations, so that cfg.keys(),
\* cfg[dss].keys() and cfg[dss][band].keys() list the keys as they did before
SecondOrder(order) == order

InitTwice ==
  /\ Init
  /\ cfg = GoldstoneCfg \/ \A t \in DOMAIN cfg : cfg[t] \in TwiceSlots

\* the first invocation has returned; station_configuration is called again
\* with another equipment dict: tel = {}, fe = {}, rx = {} are new dicts, the
\* objects of the first result stay where they are
SecondCall ==
  /\ pc = "done"
  /\ run = 1
  /\ first' = [tel |-> tel, fe |-> fe, rx |-> rx, swin |-> swin, sw |-> sw, be |-> be,
               heap |-> ports]
  /\ run' = 2
  /\ keyOrder' = SecondOrder(keyOrder)
  /\ todo' = keyOrder'
  /\ pc' = "dss"
  /\ tel' = EmptyDict
  /\ fe' = EmptyDict
  /\ rx' = EmptyDict
  /\ swin' = EmptyDict
  /\ sw' = NoNode
  /\ be' = NoNode
  /\ equipment' = EmptyDict
  /\ UNCHANGED <<cfg, ports, err>>
  /\ UNCHANGED wiringVars
  /\ UNCHANGED <<got, equipVars, hpVars, surveyVars, mgrVars, wvsrVars>>

NextTwice ==
  \/ Next
  \/ SecondCall

SpecTwice == InitTwice /\ [][NextTwice]_vars


-----------------------------------------------------------------------------
(* One constructor call of dss13.DSNfe or dss13.DSNrx on arbitrary ports *)

FEInNames == { <<"X">>, <<"X", "2">>, <<"K", "a">> }
FEOutPortNames == { <<"X", "R">>, <<"X", "L">>, <<"K", "a", "R">> }
RxInNames == { <<"X", "R">>, <<"X", "L">>, <<"X">>, <<"K", "a", "R">> }
GivenBands == { NoName, <<"X">> }

NameSets(U) == {S \in SUBSET U : S # {} /\ Cardinality(S) <= MaxPorts}

\* the upstream Device whose output ports are handed to the constructor
UpstreamName == <<"u", "p">>
UpstreamHeap(names) == DeviceHeap(<< >>, "Upstream", UpstreamName, SortedKeys(names))
UpstreamPorts(names) == DeviceOutputs(<< >>, SortedKeys(names))

Requests ==
  {[kind |-> "FrontEnd", name |-> <<"f", "e">>, inputs |-> UpstreamPorts(ins),
    band |-> b, output_names |-> SortedKeys(outs)] :
      ins \in NameSets(FEInNames), b \in GivenBands, outs \in NameSets(FEOutPortNames)}
  \cup
  {[kind |-> "Receiver", name |-> <<"r", "x">>, inputs |-> UpstreamPorts(ins),
    band |-> NoName, output_names |-> SortedKeys(outs)] :
      ins \in NameSets(RxInNames),
      outs \in NameSets({n \o <<"U">> : n \in RxInNames})}

InitWire ==
  /\ cfg = EmptyDict
  /\ keyOrder = << >>
  /\ todo = << >>
  /\ pc = "idle"
  /\ tel = EmptyDict
  /\ fe = EmptyDict
  /\ rx = EmptyDict
  /\ swin = EmptyDict
  /\ sw = NoNode
  /\ be = NoNode
  /\ equipment = EmptyDict
  /\ err = "none"
  /\ req \in Requests
  /\ ports = UpstreamHeap(DOMAIN req.inputs)
  /\ node = NoNode
  /\ werr = "none"
  /\ wpc = "call"
  /\ auxIdle

\* ClassInstance(FrontEnd, DSNfe, name, inputs=..., band=..., output_names=...)
ConstructFE ==
  /\ wpc = "call"
  /\ req.kind = "FrontEnd"
  /\ LET r == DSNfe(ports, req.name, req.inputs, req.band, req.output_names)
     IN  /\ ports' = r.heap
         /\ node' = r.node
         /\ werr' = r.err
         /\ wpc' = IF r.err = "none" THEN "returned" ELSE "raised"
  /\ UNCHANGED req
  /\ UNCHANGED stationVars
  /\ UNCHANGED auxVars

\* ClassInstance(Receiver, DSNrx, name, inputs=..., output_names=...)
ConstructRx ==
  /\ wpc = "call"
  /\ req.kind = "Receiver"
  /\ LET r == DSNrx(ports, req.name, req.inputs, req.output_names)
     IN  /\ ports' = r.heap
         /\ node' = r.node
         /\ werr' = r.err
         /\ wpc' = IF r.err = "none" THEN "returned" ELSE "raised"
  /\ UNCHANGED req
  /\ UNCHANGED stationVars
  /\ UNCHANGED auxVars

NextWire ==
  \/ ConstructFE
  \/ ConstructRx

SpecWire == InitWire /\ [][NextWire]_vars

-----------------------------------------------------------------------------
(* One call of dss13.get_FE_band_and_pols on arbitrary input names *)

\* input names with a band code (X, X2, Ka, SX) and without one (F)
BandInNames == { <<"X">>, <<"X", "2">>, <<"K", "a">>, <<"S", "X">>, <<"F">> }

BandQueries ==
  {[kind |-> "BandQuery", name |-> <<"f", "e">>, inputs |-> UpstreamPorts(ins),
    band |-> b, output_names |-> SortedKeys(outs)] :
      ins \in NameSets(BandInNames), b \in GivenBands, outs \in NameSets(FEOutPortNames)}

InitBand ==
  /\ cfg = EmptyDict
  /\ keyOrder = << >>
  /\ todo = << >>
  /\ pc = "idle"
  /\ tel = EmptyDict
  /\ fe = EmptyDict
  /\ rx = EmptyDict
  /\ swin = EmptyDict
  /\ sw = NoNode
  /\ be = NoNode
  /\ equipment = EmptyDict
  /\ err = "none"
  /\ req \in BandQueries
  /\ ports = UpstreamHeap(DOMAIN req.inputs)
  /\ node = NoNode
  /\ werr = "none"
  /\ wpc = "query"
  /\ auxIdle

\* band, output_names, pols_out = get_FE_band_and_pols(inputs, band=band,
\*                                                     output_names=output_names)
CallGetBand ==
  /\ wpc = "query"
  /\ LET g == get_FE_band_and_pols(req.inputs, req.band, req.output_names)
     IN  /\ got' = g
         /\ werr' = g.err
         /\ wpc' = IF g.err = "none" THEN "returned" ELSE "raised"
  /\ UNCHANGED <<req, node, ports>>
  /\ UNCHANGED stationVars
  /\ UNCHANGED <<equipVars, restVars>>

NextBand == CallGetBand

SpecBand == InitBand /\ [][NextBand]_vars

-----------------------------------------------------------------------------
(* The equipment dict of the five station_configuration variants *)

Variants == {"DTO", "DTO_32K", "DTO_32K_P4", "dss13", "WVSR"}

\* the variants that use the DTO matrix switch, the Valon synthesizers and ROACHes
DTOFamily == {"DTO", "DTO_32K", "DTO_32K_P4"}

\* the variants whose module calls LAN_hosts_status() when it is loaded
Discovering == {"DTO", "DTO_32K"}

\* the lists of distinct hosts LAN_hosts_status() may return as ROACHlist
ROACHlists ==
  {l \in UNION {[1..n -> 1..MaxRoaches] : n \in 0..MaxRoaches} :
     \A i, j \in DOMAIN l : l[i] = l[j] => i = j}

\* the hardware arguments a caller may pass
HardwareArgs == [IF_switch : BOOLEAN, Synthesizer : BOOLEAN, Backend : BOOLEAN]

\* standard_equipment(dss, band) of MonitorControl.Configurations.DSN_standard
StandardEquipment ==
  [k \in {"Telescope", "FrontEnd", "Receiver", "IF_switch", "sampling_clock", "Backend"}
     |-> "dict"]

\* roaches = ROACHlist, the whole list
WholeList(list) == list

\* roaches = ROACHlist[:2]
FirstTwo(list) == SubSeq(list, 1, Min(2, Len(list)))

\* if n_roaches < 1: raise ObservatoryError("", "Cannot proceed without ROACHes")
TooFewRoaches(n_roaches) == n_roaches < 1

InitEquip ==
  /\ cfg = EmptyDict
  /\ keyOrder = << >>
  /\ todo = << >>
  /\ pc = "import"
  /\ ports = << >>
  /\ tel = EmptyDict
  /\ fe = EmptyDict
  /\ rx = EmptyDict
  /\ swin = EmptyDict
  /\ sw = NoNode
  /\ be = NoNode
  /\ err = "none"
  /\ req = wiringIdle
  /\ node = NoNode
  /\ werr = "none"
  /\ wpc = "idle"
  /\ got = NoGot
  /\ variant \in Variants
  /\ ROACHlist \in (IF variant \in Discovering THEN ROACHlists ELSE {<< >>})
  /\ roaches = << >>
  /\ hardware \in (IF variant = "DTO_32K_P4" THEN HardwareArgs ELSE {DefaultHardware})
  /\ serverUp \in (IF variant \in DTOFamily THEN BOOLEAN ELSE {TRUE})
  /\ equipment \in (IF variant = "WVSR" THEN {EmptyDict, StandardEquipment}
                                        ELSE {EmptyDict})
  /\ handles = {}
  /\ ret = "none"
  /\ restIdle

\* loading the module: DTO and DTO_32K discover the ROACHes and keep two
LoadModule ==
  /\ pc = "import"
  /\ IF variant \in Discovering /\ TooFewRoaches(Len(ROACHlist))
     THEN /\ err' = "ObservatoryError"
          /\ pc' = "failed"
          /\ UNCHANGED roaches
     ELSE /\ roaches' = IF variant \in Discovering THEN FirstTwo(ROACHlist) ELSE roaches
          /\ pc' = "chain"
          /\ UNCHANGED err
  /\ UNCHANGED <<cfg, keyOrder, todo, ports, tel, fe, rx, swin, sw, be, equipment>>
  /\ UNCHANGED <<wiringVars, got, restVars>>
  /\ UNCHANGED <<variant, ROACHlist, hardware, serverUp, handles, ret>>

\* the telescope, front end and receiver entries of equipment
ChainEntries(v, e) ==
  IF v = "dss13"
  THEN Put(Put(Put(Put(e, "Telescope", "node"), "FE_selector", "node"),
               "FrontEnd", "dict"), "Receiver", "dict")
  ELSE IF v = "WVSR"
  THEN (IF DOMAIN e = {} THEN StandardEquipment ELSE e)
  ELSE Put(Put(Put(e, "Telescope", "dict"), "FrontEnd", "dict"), "Receiver", "dict")

\* equipment['Telescope'], ['FrontEnd'], ['Receiver'] are set (WVSR: equipment
\* is taken as given, or from standard_equipment when it is empty)
BuildChain ==
  /\ pc = "chain"
  /\ equipment' = ChainEntries(variant, equipment)
  /\ pc' = IF variant = "WVSR" THEN "backend" ELSE "switch"
  /\ UNCHANGED <<cfg, keyOrder, todo, ports, tel, fe, rx, swin, sw, be, err>>
  /\ UNCHANGED <<wiringVars, got, restVars>>
  /\ UNCHANGED equipVars

\* the IF switch: the DTO variants open the MS287 client, whose server must be
\* running (NamingError otherwise); dss13 builds its two switches locally
BuildSwitch ==
  /\ pc = "switch"
  /\ IF variant \in DTOFamily /\ ~ serverUp
     THEN /\ err' = "NamingError"
          /\ pc' = "failed"
          /\ UNCHANGED <<equipment, handles>>
     ELSE /\ equipment' = Put(equipment, "IF_switch", "dict")
          /\ handles' = IF variant \in DTOFamily THEN handles \cup {"MS287"} ELSE handles
          /\ pc' = IF variant = "dss13" THEN "backend" ELSE "clock"
          /\ UNCHANGED err
  /\ UNCHANGED <<cfg, keyOrder, todo, ports, tel, fe, rx, swin, sw, be>>
  /\ UNCHANGED <<wiringVars, got, restVars>>
  /\ UNCHANGED <<variant, ROACHlist, roaches, hardware, serverUp, ret>>

\* the key under which the variant stores sample_clk, if it stores it
ClockKey(v) ==
  IF v = "DTO" THEN {"sampling_clock"}
  ELSE IF v = "DTO_32K_P4" THEN {"Synthesizer"}
  ELSE {}

\* sample_clk[0] = ClassInstance(Synthesizer, Valon1, ...), sample_clk[1] = ... Valon2
BuildClock ==
  /\ pc = "clock"
  /\ handles' = handles \cup {"Valon1", "Valon2"}
  /\ equipment' = [k \in DOMAIN equipment \cup ClockKey(variant) |->
                     IF k \in ClockKey(variant) THEN "dict" ELSE equipment[k]]
  /\ pc' = "backend"
  /\ UNCHANGED <<cfg, keyOrder, todo, ports, tel, fe, rx, swin, sw, be, err>>
  /\ UNCHANGED <<wiringVars, got, restVars>>
  /\ UNCHANGED <<variant, ROACHlist, roaches, hardware, serverUp, ret>>

\* equipment['Backend']: a dict of backends in dss13, the Backend object itself
\* in the other variants; WVSR assigns it once per recorder of the collector
BuildBackend ==
  /\ pc = "backend"
  /\ \E recorders \in BOOLEAN :
       /\ (variant # "WVSR") => recorders
       /\ equipment' = IF ~ recorders THEN equipment
                        ELSE Put(equipment, "Backend",
                                 IF variant = "dss13" THEN "dict" ELSE "node")
  /\ handles' = IF variant \in DTOFamily THEN handles \cup {"ROACH"} ELSE handles
  /\ pc' = "return"
  /\ UNCHANGED <<cfg, keyOrder, todo, ports, tel, fe, rx, swin, sw, be, err>>
  /\ UNCHANGED <<wiringVars, got, restVars>>
  /\ UNCHANGED <<variant, ROACHlist, roaches, hardware, serverUp, ret>>

\* return obs, equipment (WVSR: return equipment)
Return ==
  /\ pc = "return"
  /\ ret' = IF variant = "WVSR" THEN "equipment" ELSE "pair"
  /\ pc' = "done"
  /\ UNCHANGED <<cfg, keyOrder, todo, ports, tel, fe, rx, swin, sw, be, equipment, err>>
  /\ UNCHANGED <<wiringVars, got, restVars>>
  /\ UNCHANGED <<variant, ROACHlist, roaches, hardware, serverUp, handles>>

\* equip['IF_switch'], equip['Backend'], equip['sampling_clock']
ManagerKeys == {"IF_switch", "Backend", "sampling_clock"}

\* DTO_Manager.__init__: obs, equip = station_configuration('DTO-32K'), then the
\* three subscriptions of equip; a key that is not there raises KeyError
NewManager ==
  /\ pc = "done"
  /\ variant = "DTO_32K"
  /\ IF ManagerKeys \subseteq DOMAIN equipment
     THEN /\ pc' = "manager"
          /\ UNCHANGED err
     ELSE /\ pc' = "failed"
          /\ err' = "KeyError"
  /\ UNCHANGED <<cfg, keyOrder, todo, ports, tel, fe, rx, swin, sw, be, equipment>>
  /\ UNCHANGED <<wiringVars, got, restVars>>
  /\ UNCHANGED equipVars

NextEquip ==
  \/ LoadModule
  \/ BuildChain
  \/ BuildSwitch
  \/ BuildClock
  \/ BuildBackend
  \/ Return
  \/ NewManager

SpecEquip == InitEquip /\ [][NextEquip]_vars

-----------------------------------------------------------------------------
(* dss13.py: HP_IFSwitch *)

\* most inputs of the pedestal switch left without a receiver, apart from
\* the four that dss13.station_configuration leaves so
MaxUnconnected == 2

HPInputNumbers == 100..115

\* inputs={100: None, 101: ..., 106: None, ..., 110: None, ..., 115: None}
Dss13Unconnected == {100, 106, 110, 115}

HPSwitchName == <<"P", "e", "d", "e", "s", "t", "a", "l">>

\* output_names=['IF0','IF1','IF2','IF3']
HPOutputNames == << <<"I", "F", "0">>, <<"I", "F", "1">>,
                    <<"I", "F", "2">>, <<"I", "F", "3">> >>

\* the receiver output Ports that can be cabled to the inputs 100..115
ReceiverOutputs ==
  [i \in 1..Cardinality(HPInputNumbers) |->
     NewPort("Receiver", <<"r", "x">>, <<"J">> \o Str(99 + i))]

\* the inputs argument: input number -> the receiver output cabled to it, or None
HPInputs(unconnected) ==
  [j \in HPInputNumbers |-> IF j \in unconnected THEN NoPort ELSE j - 99]

\* input_names = list(inputs.keys()); input_names.sort()
RECURSIVE SortedNumbers(_)
SortedNumbers(S) ==
  IF S = {} THEN << >>
  ELSE LET m == CHOOSE x \in S : \A y \in S : x <= y
       IN  <<m>> \o SortedNumbers(S \ {m})

\* list[i] of a Python list
Item(list, i) == list[i + 1]

\* for inp in range(4): ch_inputs[inp] = inputs[input_names[index+inp]]
ChannelInputs(inputs, input_names, index) ==
  [inp \in 0..3 |-> inputs[Item(input_names, index + inp)]]

InitHP ==
  /\ stationIdle
  /\ constructorIdle
  /\ got = NoGot
  /\ equipIdle
  /\ first = NoFirst
  /\ run = 1
  /\ surveyIdle
  /\ mgrIdle
  /\ wvsrIdle
  /\ pc = "device"
  /\ ports = ReceiverOutputs
  /\ sw = NoNode
  /\ \E unconnected \in SUBSET HPInputNumbers :
       /\ \/ Cardinality(unconnected) <= MaxUnconnected
          \/ unconnected = Dss13Unconnected
       /\ hpin = HPInputs(unconnected)
  /\ channel = EmptyDict
  /\ hpk = 0

\* Device.__init__(self, name, inputs=inputs, output_names=output_names);
\* self.channel = {}
NewHPSwitch ==
  /\ pc = "device"
  /\ sw' = DeviceNode(ports, "Device", HPSwitchName, hpin, HPOutputNames)
  /\ ports' = DeviceHeap(ports, "Device", HPSwitchName, HPOutputNames)
  /\ channel' = EmptyDict
  /\ hpk' = 0
  /\ pc' = "channel"
  /\ UNCHANGED <<cfg, keyOrder, todo, tel, fe, rx, swin, be, equipment, err, hpin>>
  /\ UNCHANGED wiringVars
  /\ UNCHANGED <<got, equipVars, first, run, surveyVars, mgrVars, wvsrVars>>

\* one pass of "for key in output_names": the Channel is a Switch with the
\* four inputs ch_inputs and one output, which replaces the parent's output
NewChannel ==
  /\ pc = "channel"
  /\ LET key       == Item(HPOutputNames, hpk)
         index     == IndexOf(HPOutputNames, key) - 1
         ch_inputs == ChannelInputs(hpin, SortedNumbers(DOMAIN hpin), index)
     IN  /\ channel' = Put(channel, key,
                           DeviceNode(ports, "Switch", key, ch_inputs, <<key>>))
         /\ ports' = DeviceHeap(ports, "Switch", key, <<key>>)
         /\ sw' = [sw EXCEPT !.outputs = Put(sw.outputs, key, Len(ports) + 1)]
  /\ hpk' = hpk + 1
  /\ pc' = IF hpk + 1 = Len(HPOutputNames) THEN "done" ELSE "channel"
  /\ UNCHANGED <<cfg, keyOrder, todo, tel, fe, rx, swin, be, equipment, err, hpin>>
  /\ UNCHANGED wiringVars
  /\ UNCHANGED <<got, equipVars, first, run, surveyVars, mgrVars, wvsrVars>>

NextHP ==
  \/ NewHPSwitch
  \/ NewChannel

SpecHP == InitHP /\ [][NextHP]_vars

-----------------------------------------------------------------------------
(* apps/server/DTO_manager.py: survey_input_spectra *)

\* the switch inputs an output may be routed to when the survey starts
InitialRoutes == {1, 2, NSlots}

\* DTO.py: inputs = {"Ro1In1": IFswitch.outputs['IF1'], "Ro1In2": ... ['IF2'],
\*                   "Ro2In1": ... ['IF3'], "Ro2In2": ... ['IF4']}
\* as the number of the switch output that feeds the RF channel
DTOBackendInputs ==
  [rf \in { <<"R", "o", "1", "I", "n", "1">>, <<"R", "o", "1", "I", "n", "2">>,
            <<"R", "o", "2", "I", "n", "1">>, <<"R", "o", "2", "I", "n", "2">> } |->
     IF rf = <<"R", "o", "1", "I", "n", "1">> THEN 1
     ELSE IF rf = <<"R", "o", "1", "I", "n", "2">> THEN 2
     ELSE IF rf = <<"R", "o", "2", "I", "n", "1">> THEN 3
     ELSE 4]

\* roachID = 1 + SWout % 2
RoachID(swout) == 1 + (swout % 2)

\* RFid = 1 + SWout // 2
RFid(swout) == 1 + (swout \div 2)

\* roach = "roach"+str(roachID)
RoachName(roachID) == <<"r", "o", "a", "c", "h">> \o Str(roachID)

\* rf = "Ro"+str(roachID)+"In"+str(RFid)
RFName(roachID, rfid) == <<"R", "o">> \o Str(roachID) \o <<"I", "n">> \o Str(rfid)

\* self.switch.set_state(output, input): the output is routed to the input
SetState(state, output, input) == [state EXCEPT ![output] = input]

\* self.RFchannel[roach][rf].get_accums(): the spectrum of the signal at the
\* RF channel, which is the switch input its feeding output is routed to
GetAccums(state, roach, rf) ==
  [roach |-> roach, rf |-> rf, input |-> state[DTOBackendInputs[rf]]]

InitSurvey ==
  /\ stationIdle
  /\ constructorIdle
  /\ got = NoGot
  /\ equipIdle
  /\ first = NoFirst
  /\ run = 1
  /\ hpIdle
  /\ mgrIdle
  /\ wvsrIdle
  /\ ports = << >>
  /\ sw = NoNode
  /\ pc = "survey"
  /\ swstate \in [1..4 -> InitialRoutes]
  /\ data = EmptyDict
  /\ SWin = 0
  /\ SWout = 0

\* one pass of the inner loop of survey_input_spectra; after the last one
\* the method returns data
ReadSpectrum ==
  /\ pc = "survey"
  /\ LET state   == SetState(swstate, SWout + 1, SWin + SWout + 1)
         index   == SWin + SWout
         roachID == RoachID(SWout)
         roach   == RoachName(roachID)
         rf      == RFName(roachID, RFid(SWout))
     IN  /\ swstate' = state
         /\ data' = Put(data, index, GetAccums(state, roach, rf))
  /\ SWout' = IF SWout = 3 THEN 0 ELSE SWout + 1
  /\ SWin' = IF SWout = 3 THEN SWin + 4 ELSE SWin
  /\ pc' = IF SWout = 3 /\ SWin + 4 >= NSlots THEN "done" ELSE "survey"
  /\ UNCHANGED <<cfg, keyOrder, todo, ports, tel, fe, rx, swin, sw, be, equipment, err>>
  /\ UNCHANGED wiringVars
  /\ UNCHANGED <<got, equipVars, first, run, hpVars, mgrVars, wvsrVars>>

NextSurvey == ReadSpectrum

SpecSurvey == InitSurvey /\ [][NextSurvey]_vars

-----------------------------------------------------------------------------
(* apps/server/DTO_manager.py: DTO_Manager *)

\* the attributes DTO_Manager.__init__ sets
ManagerAttributes ==
  {"logger", "switch", "spectrometer", "sample_clk", "sw_states", "DSPnames",
   "RFchannel", "gain", "enabled", "firmware"}

\* self.DSPnames = self.spectrometer.roach.keys()
DSPnames == {RoachName(1), RoachName(2)}

Firmwares == {"sao_spec", "kurt_spec"}

\* output_names = [["IF1pwr"], ["IF2pwr"]]: the power output of the n-th ROACH
IFpwr(n) == <<"I", "F">> \o Str(n) \o <<"p", "w", "r">>

\* DTO_32K.py: inputs = {"Ro1In1": IFswitch.outputs['IF1'],
\*                       "Ro2In1": IFswitch.outputs['IF3']}
\* as the number of the switch output that feeds the RF channel
SAOBackendInputs ==
  [rf \in {RFName(1, 1), RFName(2, 1)} |-> IF rf = RFName(1, 1) THEN 1 ELSE 3]

\* the number in a ROACH name
RoachNumber(name) == CHOOSE n \in 1..2 : RoachName(n) = name

\* self.spectrometer.roach[name].RFchannel.keys(): one channel named after the
\* power output with the spectrometer firmware, two RF inputs with the
\* kurtosis firmware
RFids(name, fw) ==
  IF fw = "sao_spec" THEN {IFpwr(RoachNumber(name))}
  ELSE {RFName(RoachNumber(name), 1), RFName(RoachNumber(name), 2)}

\* the switch output that feeds an RF channel
Feed(name, rf) ==
  IF rf \in DOMAIN DTOBackendInputs THEN DTOBackendInputs[rf]
  ELSE SAOBackendInputs[RFName(RoachNumber(name), 1)]

\* self.RFchannel[name][RF].get_ADC_input(): the level of the signal at the
\* RF channel, which is the switch input its feeding output is routed to
GetADCInput(state, name, rf) == [rf |-> rf, input |-> state[Feed(name, rf)]]

\* check_ADC_inputs: self.ADC_input[name][RF] for every ROACH and RF channel
check_ADC_inputs(state, fw) ==
  [name \in DSPnames |->
     [rf \in RFids(name, fw[name]) |-> GetADCInput(state, name, rf)]]

\* self.RFchannel[name][RF].RF_gain_get() for every ROACH and RF channel; no
\* method of the manager sets a gain
HardwareGain == 20

ReadGains(fw) ==
  [name \in DSPnames |-> [rf \in RFids(name, fw[name]) |-> HardwareGain]]

\* for SWout in range(n): self.switch.set_state(str(SWout+1), SWin+SWout+1)
RECURSIVE SetStates(_, _, _)
SetStates(state, swin0, n) ==
  IF n = 0 THEN state
  ELSE SetState(SetStates(state, swin0, n - 1), n, swin0 + n)

\* the conditions of a ROACH object of the spectrometer
RoachConditions == {"None", "running", "unreadable"}

\* sample_clk[0] and sample_clk[1] as station_configuration made them
ClockAtConstruction == [status |-> "none", freq |-> "none", pwr |-> "none"]

\* the Ports of the front ends and receivers cabled to In01..In10
ManagerPorts ==
  [i \in 1..20 |->
     IF i <= 10 THEN NewPort("FrontEnd", <<"f", "e">> \o Str(i), <<"o">> \o Str(i))
     ELSE [NewPort("Receiver", <<"r", "x">> \o Str(i - 10), <<"U">> \o Str(i - 10))
             EXCEPT !.source = i - 10]]

\* DTO_32K.py: inputs={'In01': rx['S24'].outputs['S24RU'], ..., 'In11': None, ...}
ManagerSwitchInputs ==
  [l \in {SwitchLabel(i) : i \in 1..NSlots} |->
     LET i == CHOOSE n \in 1..NSlots : SwitchLabel(n) = l
     IN  IF i <= 10 THEN 10 + i ELSE NoPort]

\* the state after DTO_Manager.__init__, whatever the hardware is found to be
Constructed ==
  /\ stationIdle
  /\ constructorIdle
  /\ got = NoGot
  /\ equipIdle
  /\ first = NoFirst
  /\ run = 1
  /\ hpIdle
  /\ wvsrIdle
  /\ ports = ManagerPorts \o DeviceHeap(<< >>, "Device", SwitchName, SwitchOutputNames)
  /\ sw = DeviceNode(ManagerPorts, "Device", SwitchName, ManagerSwitchInputs,
                     SwitchOutputNames)
  /\ pc = "ready"
  /\ sw_states = swstate
  /\ gain = ReadGains(firmware)
  /\ sample_clk = [clk \in {0, 1} |-> ClockAtConstruction]
  /\ data = EmptyDict
  /\ SWin = 0
  /\ SWout = 0
  /\ ADCin = EmptyDict
  /\ ADC_input = EmptyDict
  /\ ADC_temps = EmptyDict
  /\ sources = EmptyDict
  /\ mret = NoReturn

\* a manager of two running ROACHes, the switch in any initial routing
InitManager ==
  /\ swstate \in [1..4 -> InitialRoutes]
  /\ firmware \in [DSPnames -> Firmwares]
  /\ spectrometer = [name \in DSPnames |-> "running"]
  /\ Constructed

\* a manager of ROACHes in any condition, the switch in one initial routing
InitStatus ==
  /\ swstate = [output \in 1..4 |-> output]
  /\ firmware \in [DSPnames -> Firmwares]
  /\ spectrometer \in [DSPnames -> RoachConditions]
  /\ Constructed

\* what a step of the manager leaves alone besides its own attributes
ManagerFrame ==
  /\ UNCHANGED <<cfg, keyOrder, todo, ports, tel, fe, rx, swin, sw, be, equipment, err>>
  /\ UNCHANGED wiringVars
  /\ UNCHANGED <<got, equipVars, first, run, hpVars, wvsrVars>>

Returns(method, error) == [method |-> method, err |-> error]

\* survey_ADC_inputs is called: ADCin = {}; with different firmware in the two
\* ROACHes it logs an error and returns the empty dict
CallSurveyADC ==
  /\ pc = "ready"
  /\ ADCin' = EmptyDict
  /\ SWin' = 0
  /\ IF firmware[RoachName(1)] # firmware[RoachName(2)]
     THEN /\ mret' = Returns("survey_ADC_inputs", "none")
          /\ pc' = "ready"
     ELSE /\ pc' = "adc"
          /\ UNCHANGED mret
  /\ UNCHANGED <<firmware, sw_states, ADC_input, gain, sample_clk, spectrometer,
                 ADC_temps, sources, swstate, data, SWout>>
  /\ ManagerFrame

\* one pass of the outer loop of survey_ADC_inputs: two outputs are set and
\* two levels stored with the spectrometer firmware, four with the other
SurveyADCPass ==
  /\ pc = "adc"
  /\ LET sao        == firmware[RoachName(1)] = "sao_spec"
         n          == IF sao THEN 2 ELSE 4
         state      == SetStates(swstate, SWin, n)
         ADC_levels == check_ADC_inputs(state, firmware)
     IN  /\ swstate' = state
         /\ ADC_input' = ADC_levels
         /\ ADCin' =
              IF sao
              THEN Put(Put(ADCin, SWin, ADC_levels[RoachName(1)][IFpwr(1)]),
                       SWin + 1, ADC_levels[RoachName(2)][IFpwr(2)])
              ELSE Put(Put(Put(Put(ADCin,
                       SWin, ADC_levels[RoachName(1)][RFName(1, 1)]),
                       SWin + 1, ADC_levels[RoachName(1)][RFName(1, 2)]),
                       SWin + 2, ADC_levels[RoachName(2)][RFName(2, 1)]),
                       SWin + 3, ADC_levels[RoachName(2)][RFName(2, 2)])
         /\ SWin' = SWin + n
         /\ pc' = IF SWin + n >= NSlots THEN "ready" ELSE "adc"
         /\ mret' = IF SWin + n >= NSlots THEN Returns("survey_ADC_inputs", "none")
                    ELSE mret
  /\ UNCHANGED <<firmware, sw_states, gain, sample_clk, spectrometer, ADC_temps,
                 sources, data, SWout>>
  /\ ManagerFrame

\* survey_input_spectra is called: data = {}; self.RFchannel[roach][rf] raises
\* KeyError for a ROACH that has no RF channel "Ro<n>In<m>"
CallSurveySpectra ==
  /\ pc = "ready"
  /\ SWin' = 0
  /\ SWout' = 0
  /\ IF RFName(1, 1) \notin RFids(RoachName(1), firmware[RoachName(1)])
     THEN /\ swstate' = SetState(swstate, 1, 1)
          /\ data' = EmptyDict
          /\ mret' = Returns("survey_input_spectra", "KeyError")
          /\ pc' = "ready"
     ELSE IF RFName(2, 1) \notin RFids(RoachName(2), firmware[RoachName(2)])
     THEN /\ swstate' = SetState(SetState(swstate, 1, 1), 2, 2)
          /\ data' = Put(EmptyDict, 0,
                         GetAccums(SetState(swstate, 1, 1), RoachName(1), RFName(1, 1)))
          /\ mret' = Returns("survey_input_spectra", "KeyError")
          /\ pc' = "ready"
     ELSE /\ data' = EmptyDict
          /\ pc' = "survey"
          /\ UNCHANGED <<swstate, mret>>
  /\ UNCHANGED <<firmware, sw_states, ADCin, ADC_input, gain, sample_clk, spectrometer,
                 ADC_temps, sources>>
  /\ ManagerFrame

\* survey_input_spectra has returned data to its caller
ReturnSurveySpectra ==
  /\ pc = "done"
  /\ pc' = "ready"
  /\ mret' = Returns("survey_input_spectra", "none")
  /\ UNCHANGED <<firmware, sw_states, ADCin, ADC_input, gain, sample_clk, spectrometer,
                 ADC_temps, sources, surveyVars>>
  /\ ManagerFrame

\* update_gains
UpdateGains ==
  /\ pc = "ready"
  /\ gain' = ReadGains(firmware)
  /\ mret' = Returns("update_gains", "none")
  /\ UNCHANGED <<firmware, sw_states, ADCin, ADC_input, sample_clk, spectrometer,
                 ADC_temps, sources, surveyVars, pc>>
  /\ ManagerFrame

\* check_ADC_inputs called by a client
CheckADCInputs ==
  /\ pc = "ready"
  /\ ADC_input' = check_ADC_inputs(swstate, firmware)
  /\ mret' = Returns("check_ADC_inputs", "none")
  /\ UNCHANGED <<firmware, sw_states, ADCin, gain, sample_clk, spectrometer,
                 ADC_temps, sources, surveyVars, pc>>
  /\ ManagerFrame

\* the loop of get_active_channels over a switch's inputs: an entry, keyed by
\* the name of the Port at the input and valued by that Port's source, for
\* every input whose Port has a source; an input that is None has no .source
ActiveSources(inputs, heap) ==
  IF \E inp \in DOMAIN inputs : inputs[inp] = NoPort
  THEN [err |-> "AttributeError", sources |-> EmptyDict]
  ELSE [err |-> "none",
        sources |->
          [name \in {heap[inputs[inp]].name :
                       inp \in {i \in DOMAIN inputs : heap[inputs[i]].source # NoPort}} |->
             heap[CHOOSE q \in {inputs[i] : i \in DOMAIN inputs} :
                    heap[q].name = name].source]]

\* get_active_channels reads self.IFswitch
GetActiveChannels ==
  /\ pc = "ready"
  /\ LET r == IF "IFswitch" \in ManagerAttributes
              THEN ActiveSources(sw.inputs, ports)
              ELSE [err |-> "AttributeError", sources |-> EmptyDict]
     IN  /\ sources' = r.sources
         /\ mret' = Returns("get_active_channels", r.err)
  /\ UNCHANGED <<firmware, sw_states, ADCin, ADC_input, gain, sample_clk, spectrometer,
                 ADC_temps, surveyVars, pc>>
  /\ ManagerFrame

\* self.sample_clk.keys() of the dict {0: ..., 1: ...} lists 0 first
FirstClock(clocks) == CHOOSE clk \in DOMAIN clocks : \A c \in DOMAIN clocks : clk <= c

\* update_synth_status() and the three assignments for one clock
RefreshedClock == [status |-> "refreshed", freq |-> "refreshed", pwr |-> "refreshed"]

\* get_sampler_clocks_status: the return statement is inside the loop body
GetSamplerClocksStatus ==
  /\ pc = "ready"
  /\ sample_clk' = [sample_clk EXCEPT ![FirstClock(sample_clk)] = RefreshedClock]
  /\ mret' = Returns("get_sampler_clocks_status", "none")
  /\ UNCHANGED <<firmware, sw_states, ADCin, ADC_input, gain, spectrometer,
                 ADC_temps, sources, surveyVars, pc>>
  /\ ManagerFrame

\* the loop of check_ADC_temps over the names in the given order: the else
\* branch of "if self.spectrometer.roach[name]" formats the undefined name ID;
\* .firmware is a bound method and so is true
RECURSIVE TempsLoop(_, _, _)
TempsLoop(names, conditions, temps) ==
  IF names = << >> THEN [err |-> "none", temps |-> temps]
  ELSE IF conditions[Head(names)] = "None"
  THEN [err |-> "NameError", temps |-> temps]
  ELSE TempsLoop(Tail(names), conditions,
                 Put(temps, Head(names),
                     IF conditions[Head(names)] = "running" THEN "temperatures"
                                                              ELSE "None"))

\* check_ADC_temps, the ROACH names in the order of self.DSPnames
CheckADCTemps ==
  /\ pc = "ready"
  /\ \E order \in {<<RoachName(1), RoachName(2)>>, <<RoachName(2), RoachName(1)>>} :
       LET r == TempsLoop(order, spectrometer, EmptyDict)
       IN  /\ ADC_temps' = r.temps
           /\ mret' = Returns("check_ADC_temps", r.err)
  /\ UNCHANGED <<firmware, sw_states, ADCin, ADC_input, gain, sample_clk, spectrometer,
                 sources, surveyVars, pc>>
  /\ ManagerFrame

\* the methods that use the IF switch and the RF channels
NextManager ==
  \/ CallSurveyADC
  \/ SurveyADCPass
  \/ CallSurveySpectra
  \/ ReadSpectrum
  \/ ReturnSurveySpectra
  \/ UpdateGains
  \/ CheckADCInputs

SpecManager == InitManager /\ [][NextManager]_vars

\* the methods that report the condition of the equipment
NextStatus ==
  \/ GetActiveChannels
  \/ GetSamplerClocksStatus
  \/ CheckADCTemps

SpecStatus == InitStatus /\ [][NextStatus]_vars




-----------------------------------------------------------------------------
(* Vocabulary of the properties *)

\* the slot label "In" followed by the two decimal digits of n, for n in 0..99
SlotLabelOf(n) == <<"I", "n", Ascii[(n \div 10) + 4], Ascii[(n % 10) + 4]>>

\* the two decimal digits of a station number in 10..99
StationDigits(dss) == <<Ascii[(dss \div 10) + 4], Ascii[(dss % 10) + 4]>>

\* band+str(station)
NodeNameOf(t) == t[2] \o StationDigits(t[1])

\* the Port that the receiver of triple t produced for t: the Receiver port
\* called band+str(station)+polarization+'U'
ReceiverPortOf(t) ==
  CHOOSE p \in 1..Len(ports) :
    /\ ports[p].kind = "Receiver"
    /\ ports[p].owner = NodeNameOf(t)
    /\ ports[p].name = NodeNameOf(t) \o t[3] \o <<"U">>

\* make_switch_inputs has returned a mapping, now held in swin
SwitchInputsReturned ==
  \/ pc \in {"switch", "clock", "backend", "done"}
  \/ pc = "failed" /\ err = "NamingError"

\* two distinct triples declare the same non-zero slot
DuplicateSlots ==
  \E s, t \in DOMAIN cfg : s # t /\ cfg[s] # 0 /\ cfg[s] = cfg[t]

SlotsInRange == \A t \in DOMAIN cfg : cfg[t] \in 0..NSlots

\* the loops over stations and bands are over
NodesBuilt == todo = << >> /\ pc \in {"dss", "switch", "clock", "backend", "done"}

\* Scenario A: {14: {'S': {'R': 9, 'L': 0}}}
ScenarioA ==
  [t \in { <<14, <<"S">>, <<"R">> >>, <<14, <<"S">>, <<"L">> >> } |->
     IF t[3] = <<"R">> THEN 9 ELSE 0]

PortNamed(p, name) == p # NoPort /\ ports[p].name = name

-----------------------------------------------------------------------------
(* Switch-input assembly *)

\* C1: for a table without duplicate non-zero slots, the returned mapping holds at
\* 'In%02d' % n the very Port the receiver made for the triple with slot n in
\* 1..24 (the same heap object), and no other label holds that Port.
C1_RoundTrip ==
  (SwitchInputsReturned /\ ~ DuplicateSlots) =>
    \A t \in DOMAIN cfg :
      cfg[t] \in 1..NSlots =>
        /\ SlotLabelOf(cfg[t]) \in DOMAIN swin
        /\ swin[SlotLabelOf(cfg[t])] = ReceiverPortOf(t)
        /\ \A l \in DOMAIN swin :
             swin[l] = ReceiverPortOf(t) => l = SlotLabelOf(cfg[t])

\* two connected triples, one below 10 and one at the last slot, both bound
C1_Witness ==
  /\ SwitchInputsReturned
  /\ ~ DuplicateSlots
  /\ \E s, t \in DOMAIN cfg : cfg[s] = 9 /\ cfg[t] = NSlots
  /\ swin[<<"I", "n", "0", "9">>] # NoPort
  /\ swin[<<"I", "n", "2", "4">>] # NoPort

\* C2: make_switch_inputs returns no mapping when two distinct triples declare
\* the same non-zero slot.
C2_DuplicateSlotsRejected == DuplicateSlots => ~ SwitchInputsReturned

\* C3: a returned mapping has no key 'In00' and the receiver port of a triple
\* with slot 0 is the value of no label; in Scenario A 'In09' holds the S14RU
\* port and no label holds the S14LU port.
C3_SlotZeroAbsent ==
  SwitchInputsReturned =>
    /\ <<"I", "n", "0", "0">> \notin DOMAIN swin
    /\ \A t \in DOMAIN cfg :
         cfg[t] = 0 => \A l \in DOMAIN swin : swin[l] # ReceiverPortOf(t)
    /\ cfg = ScenarioA =>
         /\ PortNamed(swin[<<"I", "n", "0", "9">>], <<"S", "1", "4", "R", "U">>)
         /\ \A l \in DOMAIN swin : ~ PortNamed(swin[l], <<"S", "1", "4", "L", "U">>)

C3_Witness ==
  /\ SwitchInputsReturned
  /\ cfg = ScenarioA
  /\ swin[<<"I", "n", "0", "9">>] # NoPort

\* C4 as stated: whenever make_switch_inputs returns, the keys are exactly
\* In01..In24 and every label that is not the slot of a connected triple is None.
C4_KeysExactly24 ==
  SwitchInputsReturned =>
    /\ DOMAIN swin = {SlotLabelOf(i) : i \in 1..NSlots}
    /\ \A l \in DOMAIN swin :
         (~ \E t \in DOMAIN cfg : cfg[t] # 0 /\ SlotLabelOf(cfg[t]) = l) =>
           swin[l] = NoPort

\* C4 amended: the same for a table whose slot numbers all lie in 0..24.
C4_KeysExactly24InRange ==
  (SwitchInputsReturned /\ SlotsInRange) =>
    /\ DOMAIN swin = {SlotLabelOf(i) : i \in 1..NSlots}
    /\ \A l \in DOMAIN swin :
         (~ \E t \in DOMAIN cfg : cfg[t] # 0 /\ SlotLabelOf(cfg[t]) = l) =>
           swin[l] = NoPort

C4_Witness ==
  /\ SwitchInputsReturned
  /\ SlotsInRange
  /\ \E t \in DOMAIN cfg : cfg[t] = NSlots
  /\ \E t \in DOMAIN cfg : cfg[t] = 5
  /\ Cardinality({l \in DOMAIN swin : swin[l] = NoPort}) = NSlots - 2

-----------------------------------------------------------------------------
(* Front ends and receivers of station_configuration *)

Injective(d) == \A a, b \in DOMAIN d : d[a] = d[b] => a = b

\* C5: for every station and band of the table there is one front end named
\* band+str(dss), whose only input is that station's telescope output and whose
\* output names are exactly band+str(dss)+pol for the declared polarizations,
\* one distinct Port per name.
C5_FrontEndPerBand ==
  NodesBuilt =>
    /\ DOMAIN fe = {NodeNameOf(t) : t \in DOMAIN cfg}
    /\ \A t \in DOMAIN cfg :
         LET f == fe[NodeNameOf(t)]
         IN  /\ f.kind = "FrontEnd"
             /\ f.name = NodeNameOf(t)
             /\ Cardinality(DOMAIN f.inputs) = 1
             /\ \A k \in DOMAIN f.inputs :
                  /\ ports[f.inputs[k]].kind = "Telescope"
                  /\ f.inputs[k] \in {tel[t[1]].outputs[n] : n \in DOMAIN tel[t[1]].outputs}
             /\ DOMAIN f.outputs =
                  {NodeNameOf(t) \o u[3] :
                     u \in {v \in DOMAIN cfg : v[1] = t[1] /\ v[2] = t[2]}}
             /\ Injective(f.outputs)
             /\ \A n \in DOMAIN f.outputs :
                  /\ ports[f.outputs[n]].name = n
                  /\ ports[f.outputs[n]].owner = f.name

\* a front end with both polarizations beside a front end of another station
C5_Witness ==
  /\ NodesBuilt
  /\ <<"S", "1", "4">> \in DOMAIN fe
  /\ DOMAIN fe[<<"S", "1", "4">>].outputs =
       { <<"S", "1", "4", "R">>, <<"S", "1", "4", "L">> }
  /\ <<"K", "a", "2", "4">> \in DOMAIN fe

\* C6: the receiver of a front end's name has one input per front-end output,
\* keyed by the output's name and bound to that front end's Port of that name,
\* and its output names are its input names with 'U' appended, one Port each.
C6_ReceiverPerFrontEnd ==
  NodesBuilt =>
    \A name \in DOMAIN fe :
      /\ name \in DOMAIN rx
      /\ rx[name].kind = "Receiver"
      /\ DOMAIN rx[name].inputs = DOMAIN fe[name].outputs
      /\ \A k \in DOMAIN rx[name].inputs : rx[name].inputs[k] = fe[name].outputs[k]
      /\ DOMAIN rx[name].outputs = {k \o <<"U">> : k \in DOMAIN rx[name].inputs}
      /\ Injective(rx[name].outputs)
      /\ Cardinality(DOMAIN rx[name].outputs) = Cardinality(DOMAIN rx[name].inputs)
      /\ \A n \in DOMAIN rx[name].outputs :
           /\ ports[rx[name].outputs[n]].name = n
           /\ ports[rx[name].outputs[n]].owner = name

C6_Witness ==
  /\ NodesBuilt
  /\ <<"S", "1", "4">> \in DOMAIN rx
  /\ DOMAIN rx[<<"S", "1", "4">>].outputs =
       { <<"S", "1", "4", "R", "U">>, <<"S", "1", "4", "L", "U">> }
  /\ Cardinality(DOMAIN rx) = 2

-----------------------------------------------------------------------------
(* Wiring done by the constructors *)

Called == wpc # "call"

NumInputs == Cardinality(DOMAIN req.inputs)
NumOutputs == Cardinality(Range(req.output_names))

\* the band code a front-end input name starts with
LeadingBand(name) == IF name[1] = "K" THEN <<"K", "a">> ELSE <<name[1]>>

\* the polarization an output name ends with
TrailingPol(name) == <<name[Len(name)]>>

\* the Ports the call created for the node it was building
OwnPorts == {p \in 1..Len(ports) : ports[p].owner = req.name}

\* no Port of the node is a consumer or a producer of a link
Unlinked ==
  /\ \A p \in OwnPorts : ports[p].source = NoPort /\ ports[p].dest = {}
  /\ \A p \in 1..Len(ports) : ports[p].dest \cap OwnPorts = {}

\* C7: a front end built on exactly one upstream Port has that Port as the
\* source of every output, and every output carries a signal tagged with the
\* front end's band and the output's own polarization.
C7_SingleFeedFanOut ==
  (Called /\ req.kind = "FrontEnd" /\ NumInputs = 1) =>
    /\ werr = "none"
    /\ DOMAIN node.outputs = Range(req.output_names)
    /\ \A k \in DOMAIN req.inputs :
         /\ \A n \in DOMAIN node.outputs :
              /\ ports[node.outputs[n]].source = req.inputs[k]
              /\ ports[node.outputs[n]].signal.kind = "ComplexSignal"
              /\ ports[node.outputs[n]].signal.band =
                   (IF req.band # NoName THEN req.band ELSE LeadingBand(k))
              /\ ports[node.outputs[n]].signal.pol = TrailingPol(n)
         /\ ports[req.inputs[k]].dest = {node.outputs[n] : n \in DOMAIN node.outputs}

\* Scenario C: one upstream port, outputs XL and XR
C7_Witness ==
  /\ Called
  /\ req.kind = "FrontEnd"
  /\ DOMAIN req.inputs = { <<"X">> }
  /\ req.band = NoName
  /\ DOMAIN node.outputs = { <<"X", "L">>, <<"X", "R">> }
  /\ ports[node.outputs[<<"X", "L">>]].source = req.inputs[<<"X">>]
  /\ ports[node.outputs[<<"X", "R">>]].source = req.inputs[<<"X">>]

\* C8: a front end built on n >= 2 upstream Ports and n outputs (its band
\* given, so that connect_FE_inputs_and_outputs is reached) is completed, and
\* the output at each position of the sorted output names has the upstream
\* Port at that position of the sorted input names as its source.
C8_MultiFeedPairing ==
  (Called /\ req.kind = "FrontEnd" /\ req.band # NoName
     /\ NumInputs >= 2 /\ NumOutputs = NumInputs) =>
    /\ werr = "none"
    /\ \A i \in 1..NumInputs :
         ports[node.outputs[SortedKeys(Range(req.output_names))[i]]].source =
           req.inputs[SortedKeys(DOMAIN req.inputs)[i]]

\* no input name is a proper prefix of another input name
PrefixFree(names) ==
  \A a, b \in names :
    a # b => ~ (Len(a) < Len(b) /\ \A i \in 1..Len(a) : a[i] = b[i])

OutputsAreInputsU == Range(req.output_names) = {k \o <<"U">> : k \in DOMAIN req.inputs}

\* every output name+'U' has the input called name as its source, and every
\* input feeds that output only
PairedByName ==
  /\ werr = "none"
  /\ \A k \in DOMAIN req.inputs :
       /\ ports[node.outputs[k \o <<"U">>]].source = req.inputs[k]
       /\ ports[req.inputs[k]].dest = {node.outputs[k \o <<"U">>]}

\* a single input is the source of every output
SingleInputFeedsAll ==
  /\ werr = "none"
  /\ DOMAIN node.outputs = Range(req.output_names)
  /\ \A k \in DOMAIN req.inputs : \A n \in DOMAIN node.outputs :
       ports[node.outputs[n]].source = req.inputs[k]

\* C9 as stated: for every set of n >= 2 distinct input names with outputs
\* name+'U', each output name+'U' is linked to the input called name; with one
\* input every output's source is that input.
C9_ReceiverPairing ==
  (Called /\ req.kind = "Receiver") =>
    /\ (NumInputs >= 2 /\ OutputsAreInputsU) => PairedByName
    /\ NumInputs = 1 => SingleInputFeedsAll

\* C9 amended: the same for input names none of which is a proper prefix of
\* another.
C9_ReceiverPairingPrefixFree ==
  (Called /\ req.kind = "Receiver") =>
    /\ (NumInputs >= 2 /\ OutputsAreInputsU /\ PrefixFree(DOMAIN req.inputs)) =>
         PairedByName
    /\ NumInputs = 1 => SingleInputFeedsAll

C9_Witness ==
  /\ Called
  /\ req.kind = "Receiver"
  /\ DOMAIN req.inputs = { <<"X", "R">>, <<"X", "L">>, <<"K", "a", "R">> }
  /\ OutputsAreInputsU
  /\ ports[node.outputs[<<"X", "L", "U">>]].source = req.inputs[<<"X", "L">>]

\* C10: building a front end or a receiver whose numbers of inputs and of
\* outputs are both at least 2 and differ raises the count-mismatch error
\* (the failed assert) and links no Port of the node.
C10_CountMismatch ==
  (Called /\ NumInputs >= 2 /\ NumOutputs >= 2 /\ NumInputs # NumOutputs) =>
    /\ werr = "AssertionError"
    /\ Unlinked

-----------------------------------------------------------------------------
(* Band inference of get_FE_band_and_pols *)

\* get_FE_band_and_pols was called without band= and has returned or raised
BandAsked == wpc \in {"returned", "raised"} /\ req.kind = "BandQuery" /\ req.band = NoName

\* the band code a name shows, for names that have one
BandShown(name) == LeadingBand(name)

NoBandShown == \A k \in DOMAIN req.inputs : ~ HasCode(k, BandCodes)
EveryBandShown == \A k \in DOMAIN req.inputs : HasCode(k, BandCodes)
BandsAgree == \A j, k \in DOMAIN req.inputs : BandShown(j) = BandShown(k)

\* C11: without band=, get_FE_band_and_pols raises MissingPropertyError when
\* no input name holds a band code, and for input names that show one band it
\* returns the band of the first input name in sorted order.
C11_BandFromFirstInput ==
  BandAsked =>
    /\ NoBandShown => got.err = "MissingPropertyError"
    /\ (EveryBandShown /\ BandsAgree) =>
         /\ got.err = "none"
         /\ got.band = BandShown(SortedKeys(DOMAIN req.inputs)[1])

\* C12: without band= and with two or more inputs that all show a band,
\* get_FE_band_and_pols raises ConsistencyError exactly when the bands differ,
\* and otherwise returns the common band, the output names and their
\* polarizations.
C12_BandConsistency ==
  (BandAsked /\ NumInputs >= 2 /\ EveryBandShown) =>
    /\ (got.err = "ConsistencyError") <=> ~ BandsAgree
    /\ BandsAgree =>
         /\ got.err = "none"
         /\ got.band = BandShown(SortedKeys(DOMAIN req.inputs)[1])
         /\ got.output_names = req.output_names
         /\ got.pols_out = [n \in Range(req.output_names) |-> TrailingPol(n)]

-----------------------------------------------------------------------------
(* The equipment dict, the hardware flags and the ROACH discovery *)

Returned == pc = "done"

RequiredKeys == {"Telescope", "FrontEnd", "Receiver", "IF_switch", "Backend"}

\* C13: every variant returns a pair (observatory, equipment) whose equipment
\* has the keys Telescope, FrontEnd, Receiver, IF_switch, Backend and a
\* sampling-clock key, each holding a mapping from node name to node.
C13_EquipmentKeys ==
  Returned =>
    /\ ret = "pair"
    /\ RequiredKeys \subseteq DOMAIN equipment
    /\ {"sampling_clock", "Synthesizer"} \cap DOMAIN equipment # {}
    /\ \A k \in (RequiredKeys \cup {"sampling_clock", "Synthesizer"}) \cap DOMAIN equipment :
         equipment[k] = "dict"

-----------------------------------------------------------------------------
(* Construction order *)

\* the nodes station_configuration has constructed so far
BuiltNodes ==
  {tel[d] : d \in DOMAIN tel} \cup {fe[n] : n \in DOMAIN fe}
    \cup {rx[n] : n \in DOMAIN rx} \cup ({sw, be} \ {NoNode})

\* the pipeline stage that feeds a node of the given kind
UpstreamKind(kind) ==
  CASE kind = "FrontEnd" -> "Telescope"
    [] kind = "Receiver" -> "FrontEnd"
    [] kind = "Device"   -> "Receiver"
    [] kind = "Backend"  -> "Device"
    [] OTHER             -> "None"

InputPorts(n) == {n.inputs[k] : k \in DOMAIN n.inputs} \ {NoPort}

OutputPorts(n) == {n.outputs[k] : k \in DOMAIN n.outputs}

\* every input Port of a built node is an output Port of a built node of the
\* stage before it, and was created before the node's own Ports
UpstreamBuiltFirst ==
  \A n \in BuiltNodes : \A p \in InputPorts(n) :
    /\ p \in 1..Len(ports)
    /\ ports[p].kind = UpstreamKind(n.kind)
    /\ \E m \in BuiltNodes : m.name = ports[p].owner /\ p \in OutputPorts(m)
    /\ \A q \in OutputPorts(n) : p < q

\* a step leaves every node that was already built as it is
BuiltNodesKept ==
  /\ \A d \in DOMAIN tel : d \in DOMAIN tel' /\ tel'[d] = tel[d]
  /\ \A n \in DOMAIN fe : n \in DOMAIN fe' /\ fe'[n] = fe[n]
  /\ \A n \in DOMAIN rx : n \in DOMAIN rx' /\ rx'[n] = rx[n]
  /\ sw # NoNode => sw' = sw
  /\ be # NoNode => be' = be

\* C14: in every run of station_configuration a node is built only after the
\* nodes owning its input ports (telescope, front end, receiver, IF switch,
\* backend in that order), and a node, once built, never has its inputs set
\* or changed by a later step.
C14_ForwardConstruction == [] UpstreamBuiltFirst /\ [][BuiltNodesKept]_vars

\* the whole chain is built: two receivers, a switch input bound to a receiver
\* Port, the backend fed by the switch
C14_Witness ==
  /\ pc = "done"
  /\ Cardinality(DOMAIN rx) >= 2
  /\ \E l \in DOMAIN sw.inputs : sw.inputs[l] # NoPort
  /\ InputPorts(be) \subseteq OutputPorts(sw)
  /\ InputPorts(be) # {}

-----------------------------------------------------------------------------
(* The shipped table *)

\* station_configuration runs on the cfg shipped in the package
Shipped == cfg = GoldstoneCfg

\* 24SR -> 2, 14SR -> 4, 26XR -> 18, 26KaR -> 20
CableTable ==
  /\ cfg[<<24, <<"S">>, <<"R">> >>] = 2
  /\ cfg[<<14, <<"S">>, <<"R">> >>] = 4
  /\ cfg[<<26, <<"X">>, <<"R">> >>] = 18
  /\ cfg[<<26, <<"K", "a">>, <<"R">> >>] = 20

\* C15: in the shipped Goldstone table every triple maps to an integer slot in
\* 0..24, no two distinct triples share a non-zero slot, and the slots of the
\* cable-tracing table (24SR->2, 14SR->4, 26XR->18, 26KaR->20) are the ones
\* the table assigns.
C15_GoldstoneSlots ==
  Shipped => (SlotsInRange /\ ~ DuplicateSlots /\ CableTable)

\* the configuration built from the shipped table: the four traced cables end
\* on the switch inputs the table names
C15_Witness ==
  /\ Shipped
  /\ pc = "done"
  /\ PortNamed(sw.inputs[SwitchLabel(2)], <<"S", "2", "4", "R", "U">>)
  /\ PortNamed(sw.inputs[SwitchLabel(4)], <<"S", "1", "4", "R", "U">>)
  /\ PortNamed(sw.inputs[SwitchLabel(18)], <<"X", "2", "6", "R", "U">>)
  /\ PortNamed(sw.inputs[SwitchLabel(20)], <<"K", "a", "2", "6", "R", "U">>)

\* C16: in DTO_32K_P4, for an optional subsystem whose hardware flag is off no
\* hardware handle is acquired, and the construction does not fail because of
\* a subsystem that is flagged absent.
C16_OptionalSubsystems ==
  variant = "DTO_32K_P4" =>
    /\ ~ hardware.IF_switch => "MS287" \notin handles
    /\ ~ hardware.Synthesizer => handles \cap {"Valon1", "Valon2"} = {}
    /\ ~ hardware.Backend => "ROACH" \notin handles
    /\ ~ hardware.IF_switch => pc # "failed"

ModuleLoaded == variant \in Discovering /\ pc # "import"

\* C17 as stated: loading DTO or DTO_32K aborts with the unavailable-resource
\* error when fewer than two ROACHes are discovered, and otherwise proceeds
\* with the first two of the discovered list.
C17_TwoRoachesNeeded ==
  ModuleLoaded =>
    /\ Len(ROACHlist) < 2 => err = "ObservatoryError"
    /\ Len(ROACHlist) >= 2 =>
         /\ err # "ObservatoryError"
         /\ roaches = <<ROACHlist[1], ROACHlist[2]>>

\* C17 amended: loading aborts when no ROACH is discovered; with exactly one
\* it proceeds with that one, with two or more with the first two.
C17_OneRoachNeeded ==
  ModuleLoaded =>
    /\ Len(ROACHlist) = 0 => err = "ObservatoryError" /\ pc = "failed"
    /\ Len(ROACHlist) = 1 => err # "ObservatoryError" /\ roaches = ROACHlist
    /\ Len(ROACHlist) >= 2 =>
         /\ err # "ObservatoryError"
         /\ roaches = <<ROACHlist[1], ROACHlist[2]>>

\* three ROACHes discovered, two kept, and the configuration built
C17_Witness ==
  /\ ModuleLoaded
  /\ Len(ROACHlist) = 3
  /\ Len(roaches) = 2
  /\ Returned

-----------------------------------------------------------------------------
(* Two invocations *)

\* the second invocation of station_configuration has returned
SecondReturned == run = 2 /\ pc = "done"

SamePortNames(n, m) ==
  /\ n.name = m.name
  /\ DOMAIN n.inputs = DOMAIN m.inputs
  /\ DOMAIN n.outputs = DOMAIN m.outputs

SameNodes(d, e) ==
  /\ DOMAIN d = DOMAIN e
  /\ \A k \in DOMAIN d : SamePortNames(d[k], e[k])

\* the name of the Port a reference leads to
HeapName(p) == IF p = NoPort THEN NoName ELSE ports[p].name

\* both results bind the same switch labels to receiver outputs of the same name
SameSlots ==
  /\ DOMAIN swin = DOMAIN first.swin
  /\ \A l \in DOMAIN swin : HeapName(swin[l]) = HeapName(first.swin[l])

\* the Ports of the first result
FirstPorts == 1..Len(first.heap)

\* no node of the second result owns or reads a Port of the first result
DistinctObjects ==
  \A n \in BuiltNodes : (OutputPorts(n) \cup InputPorts(n)) \cap FirstPorts = {}

\* the Ports of the first result are as the first invocation left them
FirstUnaltered == SubSeq(ports, 1, Len(first.heap)) = first.heap

-----------------------------------------------------------------------------
(* The pedestal IF switch *)

\* the HP_IFSwitch and its four Channels are built
HPBuilt == hpin # EmptyDict /\ pc = "done"

ChannelOf(k) == channel[Item(HPOutputNames, k)]

\* C19: the Channel of the k-th output (k = 0..3) of an HP_IFSwitch built with
\* inputs 100..115 and outputs IF0..IF3 holds exactly the inputs 100+4k ..
\* 100+4k+3; the Channels' inputs are pairwise disjoint and together are all
\* the inputs of the switch.
C19_ChannelsPartitionInputs ==
  HPBuilt =>
    /\ \A k \in 0..3 : \A inp \in 0..3 :
         ChannelOf(k).inputs[inp] = hpin[100 + 4 * k + inp]
    /\ \A k, l \in 0..3 :
         k # l => InputPorts(ChannelOf(k)) \cap InputPorts(ChannelOf(l)) = {}
    /\ UNION {InputPorts(ChannelOf(k)) : k \in 0..3} = InputPorts(sw)

-----------------------------------------------------------------------------
(* The survey of the switch inputs *)

\* survey_input_spectra has returned data
Surveyed == swstate # EmptyDict /\ pc = "done"

\* C20: survey_input_spectra returns a mapping with the keys 0..23 whose entry
\* i is the spectrum of the RF channel that, when it was read, was fed by a
\* switch output routed to switch input i+1.
C20_SurveyReadsEveryInput ==
  Surveyed =>
    /\ DOMAIN data = 0..(NSlots - 1)
    /\ \A i \in DOMAIN data : data[i].input = i + 1

-----------------------------------------------------------------------------
(* make_switch_inputs on a table without unconnected triples *)

\* make_switch_inputs raised KeyError
SwitchInputsKeyError == pc = "failed" /\ err = "KeyError"

\* C26: make_switch_inputs returns a mapping, without raising, for every table
\* whose slots lie in 0..24 with no duplicate non-zero slot, also when no
\* triple of the table has slot 0.
C26_ReturnsForEveryValidTable ==
  (SlotsInRange /\ ~ DuplicateSlots) => ~ SwitchInputsKeyError

-----------------------------------------------------------------------------
(* The DTO manager *)

\* a method of the manager has returned or raised, and the manager is ready
Answered(method) == pc = "ready" /\ mret.method = method

SameFirmware == firmware[RoachName(1)] = firmware[RoachName(2)]

\* C21: with the same firmware in both ROACHes, survey_ADC_inputs returns a
\* mapping with the keys 0..23 whose entry i is the level of an RF channel
\* that, when it was measured, was fed by a switch output routed to switch
\* input i+1, in the sao_spec branch and in the kurtosis branch.
C21_ADCSurveyReadsEveryInput ==
  (Answered("survey_ADC_inputs") /\ SameFirmware) =>
    /\ DOMAIN ADCin = 0..(NSlots - 1)
    /\ \A i \in DOMAIN ADCin : ADCin[i].input = i + 1

\* C28: whenever the manager is ready for the next call, sw_states gives for
\* every output of the IF switch the input it is routed to.
C28_SwitchStatesInStep ==
  (pc = "ready" /\ sw_states # EmptyDict) => sw_states = swstate

\* C22: get_active_channels returns, without raising, one entry per switch
\* input that is connected, keyed by the input's name and valued by its
\* source, and nothing for the unconnected inputs.
C22_ActiveChannelsReturned ==
  Answered("get_active_channels") =>
    /\ mret.err = "none"
    /\ sources = [l \in {i \in DOMAIN sw.inputs : sw.inputs[i] # NoPort} |->
                    sw.inputs[l]]

\* C23: after a call of get_sampler_clocks_status every clock of sample_clk
\* has a refreshed status and status, freq and pwr set from it.
C23_EveryClockRefreshed ==
  Answered("get_sampler_clocks_status") =>
    \A clk \in DOMAIN sample_clk : sample_clk[clk] = RefreshedClock

\* C24: check_ADC_temps never raises and returns an entry for every DSP name:
\* the temperatures of a running ROACH, None for a ROACH object that is None
\* or whose temperatures cannot be read.
C24_TempsForEveryRoach ==
  Answered("check_ADC_temps") =>
    /\ mret.err = "none"
    /\ DOMAIN ADC_temps = DSPnames
    /\ \A name \in DSPnames :
         ADC_temps[name] = IF spectrometer[name] = "running" THEN "temperatures"
                                                              ELSE "None"

\* the manager has asked for the 'DTO-32K' configuration and got it
ManagerConfigured == variant = "DTO_32K" /\ ret = "pair" /\ pc # "done"

\* C27: every equipment key DTO_Manager.__init__ reads from the 'DTO-32K'
\* configuration was set by station_configuration of DTO_32K, so that the
\* constructor does not fail on a missing key.
C27_ManagerKeysSet ==
  ManagerConfigured => (ManagerKeys \subseteq DOMAIN equipment /\ err # "KeyError")

-----------------------------------------------------------------------------
(* WVSR.py: station_configuration *)

\* the dss argument of the call
WVSRdss == 14

\* s.split(sep) for a one-character separator
RECURSIVE Split(_, _)
Split(s, sep) ==
  IF \A i \in 1..Len(s) : s[i] # sep THEN <<s>>
  ELSE LET k == CHOOSE i \in 1..Len(s) :
                  s[i] = sep /\ \A j \in 1..(i - 1) : s[j] # sep
       IN  <<SubSeq(s, 1, k - 1)>> \o Split(SubSeq(s, k + 1, Len(s)), sep)

WVSRBands == {<<"S">>, <<"X">>}

WVSRPols == {<<"R", "C", "P">>, <<"L", "C", "P">>}

\* the receivers of the station, as standard_equipment or the caller supplies
\* them: one per band, named band+str(dss), with outputs name+'RU', name+'LU'
WVSRRxName(band) == band \o Str(WVSRdss)

WVSRRxOutputNames(name) == <<name \o <<"R", "U">>, name \o <<"L", "U">>>>

WVSRHeap ==
  LET s == WVSRRxName(<<"S">>)
      x == WVSRRxName(<<"X">>)
  IN  DeviceHeap(DeviceHeap(<< >>, "Receiver", s, WVSRRxOutputNames(s)),
                 "Receiver", x, WVSRRxOutputNames(x))

WVSRReceivers ==
  LET s == WVSRRxName(<<"S">>)
      x == WVSRRxName(<<"X">>)
      h == DeviceHeap(<< >>, "Receiver", s, WVSRRxOutputNames(s))
  IN  [n \in {s, x} |->
         DeviceNode(IF n = s THEN << >> ELSE h, "Receiver", n, EmptyDict,
                    WVSRRxOutputNames(n))]

\* collector.wvsr_cfg[wvsr][IF]: 'IF_source' names station, band and
\* polarization separated by '_'
IFSource(band, pol) == Str(WVSRdss) \o <<"_">> \o band \o <<"_">> \o pol

IFConfigs ==
  {[IF_source |-> IFSource(b, p), pol |-> p] : b \in WVSRBands, p \in WVSRPols}

\* collector.wvsr_cfg[wvsr]['channels']
ChannelLists == {<<1>>, <<1, 2>>, <<2, 1>>}

\* collector.wvsr_cfg[wvsr][1]['subchannels']
SubchannelLists == {<< <<"c", "1">> >>, << <<"c", "1">>, <<"c", "2">> >>}

\* collector.wvsr_cfg[wvsr]
RecorderConfigs ==
  UNION {{[channels |-> ch, IFs |-> f, subchannels |-> sc] :
            f \in [Range(ch) -> IFConfigs], sc \in SubchannelLists} :
         ch \in ChannelLists}

WVSRNames == {<<"w", "v", "s", "r", "1">>, <<"w", "v", "s", "r", "2">>}

\* the orders in which collector.wvsr_cfg.keys() may list the recorders
RecorderOrders(S) == {o \in [1..Cardinality(S) -> S] : Range(o) = S}

InitWVSR ==
  /\ cfg = EmptyDict
  /\ keyOrder = << >>
  /\ todo = << >>
  /\ tel = EmptyDict
  /\ fe = EmptyDict
  /\ swin = EmptyDict
  /\ sw = NoNode
  /\ be = NoNode
  /\ err = "none"
  /\ constructorIdle
  /\ got = NoGot
  /\ variant = "WVSR"
  /\ ROACHlist = << >>
  /\ roaches = << >>
  /\ hardware = DefaultHardware
  /\ serverUp = TRUE
  /\ handles = {}
  /\ ret = "none"
  /\ first = NoFirst
  /\ run = 1
  /\ hpIdle
  /\ surveyIdle
  /\ mgrIdle
  /\ rx = WVSRReceivers
  /\ ports = WVSRHeap
  /\ equipment = [k \in {"Telescope", "FrontEnd", "Receiver"} |-> "dict"]
  /\ \E names \in (SUBSET WVSRNames) \ {{}} :
       /\ wvsr_cfg \in [names -> RecorderConfigs]
       /\ wtodo \in RecorderOrders(names)
  /\ wbe = EmptyDict
  /\ pc = "wvsr"

\* for IF in collector.wvsr_cfg[wvsr]['channels']: the inputs gathered and the
\* rx_name left by the last pass
RECURSIVE ChannelLoop(_, _, _, _, _)
ChannelLoop(channels, wvsr, rc, BE_inputs, rx_name) ==
  IF channels = << >> THEN [BE_inputs |-> BE_inputs, rx_name |-> rx_name]
  ELSE LET n    == Head(channels)
           band == Split(rc.IFs[n].IF_source, "_")[2]
           name == band \o Str(WVSRdss)
           port == rx[name].outputs[name \o <<Head(rc.IFs[n].pol)>> \o <<"U">>]
       IN  ChannelLoop(Tail(channels), wvsr, rc,
                       Put(BE_inputs, wvsr \o <<".", "I", "F">> \o Str(n), port),
                       name)

Stokes == <<"I", "Q", "U", "V">>

\* for subch in ...[1]['subchannels']: for Stokes in ['I', 'Q', 'U', 'V']:
\*   output_names.append(rx_name + "." + subch + "." + Stokes)
WVSROutputNames(rx_name, subchannels) ==
  [i \in 1..(4 * Len(subchannels)) |->
     rx_name \o <<".">> \o subchannels[((i - 1) \div 4) + 1] \o <<".">>
       \o <<Stokes[((i - 1) % 4) + 1]>>]

\* one pass of the loop over collector.wvsr_cfg.keys()
BuildWVSRBackend ==
  /\ pc = "wvsr"
  /\ wtodo # << >>
  /\ LET wvsr  == Head(wtodo)
         rc    == wvsr_cfg[wvsr]
         loop  == ChannelLoop(rc.channels, wvsr, rc, EmptyDict, NoName)
         names == WVSROutputNames(loop.rx_name, rc.subchannels)
     IN  /\ be' = DeviceNode(ports, "Backend", wvsr, loop.BE_inputs, names)
         /\ ports' = DeviceHeap(ports, "Backend", wvsr, names)
         /\ wbe' = Put(wbe, wvsr, [inputs |-> loop.BE_inputs, output_names |-> names])
  /\ equipment' = Put(equipment, "Backend", "node")
  /\ wtodo' = Tail(wtodo)
  /\ pc' = IF Tail(wtodo) = << >> THEN "return" ELSE "wvsr"
  /\ UNCHANGED <<cfg, keyOrder, todo, tel, fe, rx, swin, sw, err, wvsr_cfg>>
  /\ UNCHANGED <<wiringVars, got, equipVars>>
  /\ UNCHANGED <<first, run, hpVars, surveyVars, mgrVars>>

NextWVSR ==
  \/ BuildWVSRBackend
  \/ Return

SpecWVSR == InitWVSR /\ [][NextWVSR]_vars

\* the band the collector recorded in a channel's IF_source
SourceBand(source) == CHOOSE b \in WVSRBands : \E p \in WVSRPols : source = IFSource(b, p)

\* the receiver output a channel of a recorder is cabled to
ChannelOutput(rc, n) ==
  WVSRRxName(SourceBand(rc.IFs[n].IF_source)) \o <<Head(rc.IFs[n].pol)>> \o <<"U">>

\* the output names the recorder's subchannels call for, by the receiver of IF 1
StokesNames(rc) ==
  {WVSRRxName(SourceBand(rc.IFs[1].IF_source)) \o <<".">> \o sc \o <<".">> \o <<st>> :
     sc \in Range(rc.subchannels), st \in Range(Stokes)}

\* C25: for each WVSR recorder the backend has one input 'wvsr.IF<n>' per
\* channel n, bound to the receiver output band+str(dss)+pol[0]+'U' of the
\* band named in that channel's IF_source, and four distinct output names per
\* subchannel, rx_name.subchannel.Stokes, rx_name being the receiver that
\* feeds IF 1.
C25_WVSRBackendNames ==
  \A w \in DOMAIN wbe :
    LET rc == wvsr_cfg[w]
        b  == wbe[w]
    IN  /\ DOMAIN b.inputs = {w \o <<".", "I", "F">> \o Str(n) : n \in Range(rc.channels)}
        /\ \A n \in Range(rc.channels) :
             PortNamed(b.inputs[w \o <<".", "I", "F">> \o Str(n)], ChannelOutput(rc, n))
        /\ Len(b.output_names) = 4 * Len(rc.subchannels)
        /\ Range(b.output_names) = StokesNames(rc)
        /\ \A i, j \in 1..Len(b.output_names) :
             b.output_names[i] = b.output_names[j] => i = j

\* the inputs half of C25 alone
WVSRInputsBound ==
  \A w \in DOMAIN wbe :
    \A n \in Range(wvsr_cfg[w].channels) :
      PortNamed(wbe[w].inputs[w \o <<".", "I", "F">> \o Str(n)],
                ChannelOutput(wvsr_cfg[w], n))

====
